---- MODULE Spec2Model ----
(***************************************************************************)
(* Staff day-schedule generation of the StaffScheduleManager component     *)
(* (src/client/components/StaffScheduleManager.tsx).                       *)
(*                                                                         *)
(* Conventions of the model                                                *)
(*   - a JavaScript object is a record; an optional field that is missing  *)
(*     is simply not in the record's DOMAIN;                               *)
(*   - an "HH:mm" string is the 5-tuple <<h1, h2, ":", m1, m2>> of its     *)
(*     characters, a "yyyy-MM-dd" string the triple <<y, m, d>>;           *)
(*   - an ISO date-time string is the record of its fields                 *)
(*     [y, mo, d, h, mi, s]; it carries local wall-clock time;             *)
(*   - a Date is [day |-> days since 1970-01-01, sec |-> second of the     *)
(*     day], or InvalidDate; the local time zone has no daylight saving    *)
(*     (Africa/Johannesburg);                                              *)
(*   - coordinates are integers in units of 1e-4 degree;                   *)
(*   - a function that can throw returns a record with a field threw.      *)
(***************************************************************************)
EXTENDS Integers, Sequences, FiniteSets, TLC

VARIABLES
    jobs,          \* prop jobs: Job[]
    staff,         \* prop staff: User[]
    selectedWeek,  \* useState(new Date())
    schedules,     \* useState<Record<string, ScheduleEntry[]>>({})
    mounted,       \* the component has rendered
    effectPending, \* the effect of [jobs, staff, selectedWeek] is due to run
    failure,       \* "none", or where an exception surfaced: "render" (the
                   \* JSX of the component) or "effect" (generateSchedules)
    download,      \* <<>>, or <<file>> for the CSV file exported last
    call,          \* <<>>, or <<c>> for the last call of a helper function
                   \* with its arguments and its result
    users,         \* the users collection: the stored document per username
    clock,         \* the server clock (Date.now()), in units of 10 minutes
    reqs,          \* the requests the server is handling, per request slot
    spent,         \* the reset tokens a reset succeeded with since the last
                   \* reset request (history)
    layouts,       \* let layouts: LayoutConfiguration[]
    activeLayout,  \* let activeLayout: <<>> for null, <<layout>> otherwise
    reply          \* <<>>, or <<r>> for the last response of a layout route

vars == <<jobs, staff, selectedWeek, schedules, mounted, effectPending, failure,
          download, call, users, clock, reqs, spent, layouts, activeLayout,
          reply>>

\* the state of the user routes and of the layout routes
ServerVars == <<users, clock, reqs, spent>>
LayoutVars == <<layouts, activeLayout, reply>>

----------------------------------------------------------------------------
(* Bounds of the model *)

MaxJobs == 2        \* longest job list
MaxStaff == 2       \* longest staff list
MaxPropJobs == 1    \* longest job list of the interactive specification
MaxPropStaff == 1   \* longest staff list of the interactive specification
MaxMinutes == 180   \* largest minute count of the helper calls below a day
MaxNavWeeks == 1    \* how far the week buttons lead away from the clock
MaxRequests == 2    \* requests the server handles at a time
MaxAttempts == 6    \* largest stored loginAttempts
MaxNow == 14        \* last tick of the server clock
MaxLayouts == 2     \* largest number of stored layouts
MaxVersion == 2     \* largest version of a stored layout
LayoutSpan == 1     \* ticks of the clock left to the layout routes

----------------------------------------------------------------------------
(* JavaScript and date-fns primitives *)

Has(r, f) == f \in DOMAIN r

Max(a, b) == IF a >= b THEN a ELSE b
Min(a, b) == IF a <= b THEN a ELSE b

\* the % operator of JavaScript: the result has the sign of the dividend
JsRem(a, b) == IF a >= 0 THEN a % b ELSE -((-a) % b)

\* undefined, as the value of a string field and as an object
Undefined == "undefined"
UndefinedObject == [undefined |-> TRUE]

\* r.f, undefined when the field is missing
Get(r, f) == IF Has(r, f) THEN r[f] ELSE Undefined

InvalidDate == [nan |-> TRUE]
IsValidDate(d) == Has(d, "day")

\* the largest time value of a Date is 8.64e15 ms = 100,000,000 days
MaxDateDay == 100000000

MkDate(day, sec) ==
    IF \/ day > MaxDateDay \/ (day = MaxDateDay /\ sec > 0)
       \/ day < -MaxDateDay
    THEN InvalidDate
    ELSE [day |-> day, sec |-> sec]

IsLeap(y) == (y % 4 = 0 /\ y % 100 # 0) \/ y % 400 = 0

DaysInMonth(y, m) ==
    CASE m \in {1, 3, 5, 7, 8, 10, 12} -> 31
      [] m \in {4, 6, 9, 11} -> 30
      [] OTHER -> IF IsLeap(y) THEN 29 ELSE 28

\* days since 1970-01-01 of the civil date y-m-d (proleptic Gregorian)
DaysFromCivil(y, m, d) ==
    LET yy  == IF m <= 2 THEN y - 1 ELSE y
        era == yy \div 400
        yoe == yy - era * 400
        mp  == IF m > 2 THEN m - 3 ELSE m + 9
        doy == (153 * mp + 2) \div 5 + d - 1
        doe == yoe * 365 + yoe \div 4 - yoe \div 100 + doy
    IN  era * 146097 + doe - 719468

\* the civil date <<y, m, d>> of a day number
CivilFromDays(z) ==
    LET zz  == z + 719468
        era == zz \div 146097
        doe == zz - era * 146097
        yoe == (doe - doe \div 1460 + doe \div 36524 - doe \div 146096) \div 365
        doy == doe - (365 * yoe + yoe \div 4 - yoe \div 100)
        mp  == (5 * doy + 2) \div 153
        d   == doy - (153 * mp + 2) \div 5 + 1
        m   == IF mp < 10 THEN mp + 3 ELSE mp - 9
        y   == yoe + era * 400 + (IF m <= 2 THEN 1 ELSE 0)
    IN  <<y, m, d>>

\* new Date(2024, 0, 1)
Epoch2024 == MkDate(DaysFromCivil(2024, 1, 1), 0)

\* parseISO(string): Invalid Date when a field is out of range
parseISO(str) ==
    IF /\ str.mo \in 1..12
       /\ str.d \in 1..DaysInMonth(str.y, str.mo)
       /\ str.h \in 0..23 /\ str.mi \in 0..59 /\ str.s \in 0..59
    THEN MkDate(DaysFromCivil(str.y, str.mo, str.d),
                str.h * 3600 + str.mi * 60 + str.s)
    ELSE InvalidDate

\* n.toString().padStart(2, "0") for 0 <= n <= 99
Pad2(n) == <<n \div 10, n % 10>>

\* `${hh}:${mm}`
HHMM(h, m) == Pad2(h) \o <<":">> \o Pad2(m)

\* time.split(":").map(Number)
SplitHours(time) == time[1] * 10 + time[2]
SplitMins(time) == time[4] * 10 + time[5]

\* format(date, "HH:mm") of a valid date
FormatHHmm(date) == HHMM(date.sec \div 3600, (date.sec % 3600) \div 60)

\* format(date, "yyyy-MM-dd") of a valid date
FormatDate(date) == CivilFromDays(date.day)

\* isSameDay(a, b): false when either date is invalid
isSameDay(a, b) == IsValidDate(a) /\ IsValidDate(b) /\ a.day = b.day

\* addDays(date, amount)
addDays(date, amount) ==
    IF IsValidDate(date) THEN MkDate(date.day + amount, date.sec)
    ELSE InvalidDate

\* addWeeks(date, amount)
addWeeks(date, amount) == addDays(date, 7 * amount)

\* date.getDay(): 0 = Sunday; 1970-01-01 was a Thursday
GetDay(date) == (date.day + 4) % 7

\* startOfWeek with the default weekStartsOn: 0 (Sunday)
startOfWeekSunday(date) ==
    IF ~IsValidDate(date) THEN InvalidDate
    ELSE MkDate(date.day - GetDay(date), 0)

\* startOfWeek(date, { weekStartsOn: 1 })
startOfWeek(date) ==
    IF ~IsValidDate(date) THEN InvalidDate
    ELSE LET day  == GetDay(date)
             diff == (IF day < 1 THEN 7 ELSE 0) + day - 1
         IN  MkDate(date.day - diff, 0)

----------------------------------------------------------------------------
(* Time arithmetic helpers *)

addMinutes(time, minutes) ==
    LET totalMinutes == SplitHours(time) * 60 + SplitMins(time) + minutes
        newHours == (totalMinutes \div 60) % 24
        newMins  == totalMinutes % 60
    IN  HHMM(newHours, newMins)

\* subtractMinutes that wraps below midnight as addMinutes wraps above it
subtractMinutesWrapping(time, minutes) ==
    LET totalMinutes ==
            (SplitHours(time) * 60 + SplitMins(time) - minutes) % 1440
    IN  HHMM(totalMinutes \div 60, totalMinutes % 60)

subtractMinutes(time, minutes) ==
    LET totalMinutes == SplitHours(time) * 60 + SplitMins(time) - minutes
        newHours == Max(0, totalMinutes \div 60)
        newMins  == Max(0, JsRem(totalMinutes, 60))
    IN  HHMM(newHours, newMins)

compareTime(time1, time2) ==
    SplitHours(time1) * 60 + SplitMins(time1)
        - (SplitHours(time2) * 60 + SplitMins(time2))

----------------------------------------------------------------------------
(* Duration policy table *)

\* getJobDuration without the case of "Camera Inspection"
getJobDurationNoCamera(category) ==
    CASE category = "Geyser Replacement" -> 180
      [] category = "Geyser Assessment" -> 60
      [] category = "Leak Detection" -> 120
      [] category = "Drain Blockage" -> 90
      [] category = "Toilet/Shower" -> 90
      [] OTHER -> 60

getJobDuration(category) ==
    CASE category = "Geyser Replacement" -> 180
      [] category = "Geyser Assessment" -> 60
      [] category = "Leak Detection" -> 120
      [] category = "Drain Blockage" -> 90
      [] category = "Camera Inspection" -> 75
      [] category = "Toilet/Shower" -> 90
      [] OTHER -> 60

----------------------------------------------------------------------------
(* Travel-time estimator *)

\* Math.round(Math.sqrt(dlat^2 + dlng^2) * 3000) for differences in units of
\* 1e-4 degree, saturated at 61: round(0.3 * sqrt(S)) >= k  iff
\* 9 * S >= (10 * k - 5)^2.  A difference of more than 1 degree in one
\* coordinate already gives more than 3000 and is answered without squaring.
RoundDistance3000(dlat, dlng) ==
    IF dlat > 10000 \/ dlat < -10000 \/ dlng > 10000 \/ dlng < -10000
    THEN 61
    ELSE LET S  == dlat * dlat + dlng * dlng
             ks == {k \in 1..61 : 9 * S >= (10 * k - 5) * (10 * k - 5)}
         IN  IF ks = {} THEN 0 ELSE CHOOSE k \in ks : \A j \in ks : j <= k

\* estimateTravelTime without the lower limit of 15 minutes
estimateTravelTimeNoFloor(from, to) ==
    Min(60, RoundDistance3000(to.lat - from.lat, to.lng - from.lng))

estimateTravelTime(from, to) ==
    Max(15, Min(60, RoundDistance3000(to.lat - from.lat, to.lng - from.lng)))

----------------------------------------------------------------------------
(* Shift policy *)

\* Math.floor(differenceInMinutes(date, new Date(2024, 0, 1)) / (7*24*60)),
\* with the difference split into whole weeks and a rest so that the
\* arithmetic stays within 32-bit integers for every representable date
WeekNumber(date) ==
    LET dd   == date.day - Epoch2024.day
        a    == dd \div 7
        rest == (dd % 7) * 86400 + (date.sec - Epoch2024.sec)
        total_nonneg == a >= 1 \/ (a = 0 /\ rest >= 0)
        restMinutes  == IF total_nonneg THEN rest \div 60 ELSE -((-rest) \div 60)
    IN  a + (restMinutes \div (7 * 24 * 60))

isLateShiftWeek(date) ==
    IF ~IsValidDate(date) THEN FALSE   \* NaN % 2 === 1 is false
    ELSE JsRem(WeekNumber(date), 2) = 1

----------------------------------------------------------------------------
(* Day schedule builder *)

\* Coordinates in units of 1e-4 degree.  A display string built by a
\* template literal is the tuple of its pieces; every location and
\* description is such a tuple.
BASE_LOCATIONS ==
    ("Johannesburg" :>
        [address |-> "5 Thora Cres, Wynberg, Sandton, 2090",
         coordinates |-> [lat |-> -261076, lng |-> 280567]])
    @@
    ("Cape Town" :>
        [address |-> "98 Marine Dr, Paarden Eiland, Cape Town, 7405",
         coordinates |-> [lat |-> -338903, lng |-> 184979]])

\* names every object literal inherits from Object.prototype
ObjectPrototypeKeys ==
    {"constructor", "toString", "toLocaleString", "valueOf", "hasOwnProperty",
     "isPrototypeOf", "propertyIsEnumerable", "__proto__"}

\* BASE_LOCATIONS[key] as JavaScript evaluates it: an own entry, an inherited
\* member of Object.prototype (an object without address or coordinates), or
\* undefined
LookupBaseLocation(key) ==
    IF key \in DOMAIN BASE_LOCATIONS THEN BASE_LOCATIONS[key]
    ELSE IF key \in ObjectPrototypeKeys THEN [inherited |-> key]
    ELSE UndefinedObject

\* staffMember.location?.city || "Johannesburg"
BaseLocationKey(staffMember) ==
    IF Has(staffMember, "location") /\ Has(staffMember.location, "city")
    THEN staffMember.location.city
    ELSE "Johannesburg"

\* BASE_LOCATIONS[validBaseLocation]
BaseLocationData(staffMember) ==
    LET baseLocationKey == BaseLocationKey(staffMember)
        validBaseLocation ==
            IF ~Has(LookupBaseLocation(baseLocationKey), "undefined")
            THEN baseLocationKey
            ELSE "Johannesburg"
    IN  LookupBaseLocation(validBaseLocation)

\* IsLateShift with ?? in place of ||: an explicit false is used as it is
IsLateShiftNullish(staffMember, date) ==
    IF Has(staffMember, "schedule") /\ Has(staffMember.schedule, "workingLateShift")
    THEN staffMember.schedule.workingLateShift
    ELSE isLateShiftWeek(date)

\* staffMember.schedule?.workingLateShift || isLateShiftWeek(date)
IsLateShift(staffMember, date) ==
    \/ /\ Has(staffMember, "schedule")
       /\ Has(staffMember.schedule, "workingLateShift")
       /\ staffMember.schedule.workingLateShift
    \/ isLateShiftWeek(date)

\* ShiftEnd that ignores the late flag
ShiftEndAlwaysNormal(isLateShift) == HHMM(17, 0)

ShiftEnd(isLateShift) == IF isLateShift THEN HHMM(19, 0) ELSE HHMM(17, 0)

\* IsDayJob without the test of assignedTo
IsDayJobAnyStaff(job, staffMember, date) ==
    /\ Has(job, "dueDate")
    /\ isSameDay(parseISO(job.dueDate), date)

\* the filter of dayJobs
IsDayJob(job, staffMember, date) ==
    /\ Get(job, "assignedTo") = staffMember.id
    /\ Has(job, "dueDate")
    /\ isSameDay(parseISO(job.dueDate), date)

\* new Date(a.dueDate).getTime() - new Date(b.dueDate).getTime(), in seconds;
\* new Date and parseISO agree on date-time strings
CompareDue(a, b) ==
    LET da == parseISO(a.dueDate)
        db == parseISO(b.dueDate)
    IN  (da.day - db.day) * 86400 + (da.sec - db.sec)

\* SortedInsert of a sort that is not stable: x goes before its equals
SortedInsertBeforeEquals(sorted, x) ==
    LET k == Cardinality({i \in 1..Len(sorted) : CompareDue(sorted[i], x) < 0})
    IN  SubSeq(sorted, 1, k) \o <<x>> \o SubSeq(sorted, k + 1, Len(sorted))

\* one step of a stable sort: x goes behind every element not greater than it
SortedInsert(sorted, x) ==
    LET k == Cardinality({i \in 1..Len(sorted) : CompareDue(sorted[i], x) <= 0})
    IN  SubSeq(sorted, 1, k) \o <<x>> \o SubSeq(sorted, k + 1, Len(sorted))

\* Array.prototype.sort with the due-date comparator (stable)
RECURSIVE SortByDue(_)
SortByDue(list) ==
    IF list = <<>> THEN <<>>
    ELSE SortedInsert(SortByDue(SubSeq(list, 1, Len(list) - 1)),
                      list[Len(list)])

\* { lat: -26.2041 + Math.random() * 0.1, lng: 28.0473 + Math.random() * 0.1 }
\* for the two random numbers r = <<r1, r2>>, in units of 1e-3
JitterPoint(r) == [lat |-> -262041 + r[1], lng |-> 280473 + r[2]]

BaseEntry(baseLocationData) ==
    [time |-> HHMM(5, 0), type |-> "base",
     description |-> <<"Start shift at base location">>]
    @@ (IF Has(baseLocationData, "address")
        THEN [location |-> <<baseLocationData.address>>]
        ELSE <<>>)
    @@ (IF Has(baseLocationData, "coordinates")
        THEN [coordinates |-> baseLocationData.coordinates]
        ELSE <<>>)

\* TravelEntry that stands at the time of its job
TravelEntryAtJobTime(jobTime, travelTime, jobLocation) ==
    [time |-> jobTime, type |-> "travel",
     location |-> <<"En route to ", jobLocation>>,
     description |-> <<"Travel time: ", travelTime, " minutes">>,
     estimatedDuration |-> travelTime]

TravelEntry(jobTime, travelTime, jobLocation) ==
    [time |-> subtractMinutes(jobTime, travelTime), type |-> "travel",
     location |-> <<"En route to ", jobLocation>>,
     description |-> <<"Travel time: ", travelTime, " minutes">>,
     estimatedDuration |-> travelTime]

JobEntry(job, jobTime, jobLocation, jobTitle) ==
    [time |-> jobTime, type |-> "job",
     location |-> <<jobLocation>>,
     description |-> <<jobTitle>>,
     jobId |-> job.id,
     estimatedDuration |-> getJobDuration(Get(job, "category"))]

\* EndEntry without the comparison with shiftEnd
EndEntryNoFloor(sortedJobs, currentTime, isLateShift) ==
    LET lastJobTime == IF Len(sortedJobs) > 0 THEN currentTime ELSE HHMM(5, 0)
    IN  [time |-> lastJobTime, type |-> "end",
         location |-> <<"End of shift">>,
         description |-> <<"Shift ends ",
             IF isLateShift THEN "(Late Shift)" ELSE "(Normal Shift)">>]

\* EndEntry that always ends at shiftEnd
EndEntryShiftEndOnly(sortedJobs, currentTime, isLateShift) ==
    [time |-> ShiftEnd(isLateShift), type |-> "end",
     location |-> <<"End of shift">>,
     description |-> <<"Shift ends ",
         IF isLateShift THEN "(Late Shift)" ELSE "(Normal Shift)">>]

\* the end-of-shift entry from the running time and the shift
EndEntry(sortedJobs, currentTime, isLateShift) ==
    LET shiftEnd    == ShiftEnd(isLateShift)
        lastJobTime == IF Len(sortedJobs) > 0 THEN currentTime ELSE HHMM(5, 0)
        endTime     == IF compareTime(lastJobTime, shiftEnd) > 0
                       THEN lastJobTime ELSE shiftEnd
    IN  [time |-> endTime, type |-> "end",
         location |-> <<"End of shift">>,
         description |-> <<"Shift ends ",
             IF isLateShift THEN "(Late Shift)" ELSE "(Normal Shift)">>]

\* JobStep whose running time includes the travel time
JobStepTravelInRunningTime(st, job, rnd) ==
    IF ~Has(job, "id") THEN st
    ELSE
    LET jobTime == IF Has(job, "dueDate") THEN FormatHHmm(parseISO(job.dueDate))
                   ELSE HHMM(8, 0)
        jobLocation == IF Has(job, "riskAddress") THEN job.riskAddress
                       ELSE IF Has(job, "RiskAddress") THEN job.RiskAddress
                       ELSE "Location not specified"
        jobTitle == IF Has(job, "title") THEN job.title ELSE "Unnamed Job"
        to == JitterPoint(rnd[st.draws + 1])
    IN  IF Has(st.currentLocation, "undefined")
        THEN \* estimateTravelTime reads from.lat: TypeError
             [st EXCEPT !.threw = TRUE, !.draws = @ + 1]
        ELSE
        LET travelTime == estimateTravelTime(st.currentLocation, to)
            withTravel == IF travelTime > 0
                          THEN Append(st.schedule,
                                      TravelEntry(jobTime, travelTime, jobLocation))
                          ELSE st.schedule
            jobDuration == getJobDuration(
                IF Has(job, "category") THEN job.category ELSE "Other")
        IN  [schedule |-> Append(withTravel,
                                 JobEntry(job, jobTime, jobLocation, jobTitle)),
             currentTime |-> addMinutes(jobTime, jobDuration + travelTime),
             currentLocation |-> JitterPoint(rnd[st.draws + 2]),
             draws |-> st.draws + 2,
             threw |-> FALSE]

\* the body of sortedJobs.forEach for one job; st is the loop state
\* [schedule, currentTime, currentLocation, draws, threw], rnd the random
\* numbers of this build, consumed in order
JobStep(st, job, rnd) ==
    IF ~Has(job, "id") THEN st
    ELSE
    LET jobTime == IF Has(job, "dueDate") THEN FormatHHmm(parseISO(job.dueDate))
                   ELSE HHMM(8, 0)
        jobLocation == IF Has(job, "riskAddress") THEN job.riskAddress
                       ELSE IF Has(job, "RiskAddress") THEN job.RiskAddress
                       ELSE "Location not specified"
        jobTitle == IF Has(job, "title") THEN job.title ELSE "Unnamed Job"
        to == JitterPoint(rnd[st.draws + 1])
    IN  IF Has(st.currentLocation, "undefined")
        THEN \* estimateTravelTime reads from.lat: TypeError
             [st EXCEPT !.threw = TRUE, !.draws = @ + 1]
        ELSE
        LET travelTime == estimateTravelTime(st.currentLocation, to)
            withTravel == IF travelTime > 0
                          THEN Append(st.schedule,
                                      TravelEntry(jobTime, travelTime, jobLocation))
                          ELSE st.schedule
            jobDuration == getJobDuration(
                IF Has(job, "category") THEN job.category ELSE "Other")
        IN  [schedule |-> Append(withTravel,
                                 JobEntry(job, jobTime, jobLocation, jobTitle)),
             currentTime |-> addMinutes(jobTime, jobDuration),
             currentLocation |-> JitterPoint(rnd[st.draws + 2]),
             draws |-> st.draws + 2,
             threw |-> FALSE]

RECURSIVE JobLoop(_, _, _, _)
JobLoop(st, sortedJobs, i, rnd) ==
    IF i > Len(sortedJobs) \/ st.threw THEN st
    ELSE JobLoop(JobStep(st, sortedJobs[i], rnd), sortedJobs, i + 1, rnd)

\* a stable sort of an entry list by the time of the entries
RECURSIVE SortByTime(_)
SortByTime(entries) ==
    IF entries = <<>> THEN <<>>
    ELSE LET sorted == SortByTime(SubSeq(entries, 1, Len(entries) - 1))
             x == entries[Len(entries)]
             k == Cardinality({i \in 1..Len(sorted) :
                      compareTime(sorted[i].time, x.time) <= 0})
         IN  SubSeq(sorted, 1, k) \o <<x>> \o SubSeq(sorted, k + 1, Len(sorted))

\* generateDaySchedule that sorts the list by time before it returns it
generateDayScheduleSortedByTime(staffMember, date, allJobs, rnd, draws) ==
    IF ~Has(staffMember, "id")
    THEN [threw |-> FALSE, entries |-> <<>>, draws |-> draws]
    ELSE
    LET dayJobs == SelectSeq(allJobs, LAMBDA job : IsDayJob(job, staffMember, date))
        sortedJobs == SortByDue(dayJobs)
        baseLocationData == BaseLocationData(staffMember)
        isLateShift == IsLateShift(staffMember, date)
        st0 == [schedule |-> <<BaseEntry(baseLocationData)>>,
                currentTime |-> HHMM(5, 0),
                currentLocation |->
                    IF Has(baseLocationData, "coordinates")
                    THEN baseLocationData.coordinates
                    ELSE UndefinedObject,
                draws |-> draws,
                threw |-> FALSE]
        st == JobLoop(st0, sortedJobs, 1, rnd)
    IN  IF st.threw
        THEN [threw |-> TRUE, entries |-> <<>>, draws |-> st.draws]
        ELSE [threw |-> FALSE,
              entries |-> SortByTime(Append(st.schedule,
                                 EndEntry(sortedJobs, st.currentTime, isLateShift))),
              draws |-> st.draws]

\* generateDaySchedule(staffMember, date) over the job list allJobs, with the
\* random numbers rnd from position draws + 1 on.  The result is
\* [threw, entries, draws]: whether it threw, the list returned, and the
\* position reached in rnd.
generateDaySchedule(staffMember, date, allJobs, rnd, draws) ==
    IF ~Has(staffMember, "id")
    THEN [threw |-> FALSE, entries |-> <<>>, draws |-> draws]
    ELSE
    LET dayJobs == SelectSeq(allJobs, LAMBDA job : IsDayJob(job, staffMember, date))
        sortedJobs == SortByDue(dayJobs)
        baseLocationData == BaseLocationData(staffMember)
        isLateShift == IsLateShift(staffMember, date)
        st0 == [schedule |-> <<BaseEntry(baseLocationData)>>,
                currentTime |-> HHMM(5, 0),
                currentLocation |->
                    IF Has(baseLocationData, "coordinates")
                    THEN baseLocationData.coordinates
                    ELSE UndefinedObject,
                draws |-> draws,
                threw |-> FALSE]
        st == JobLoop(st0, sortedJobs, 1, rnd)
    IN  IF st.threw
        THEN [threw |-> TRUE, entries |-> <<>>, draws |-> st.draws]
        ELSE [threw |-> FALSE,
              entries |-> Append(st.schedule,
                                 EndEntry(sortedJobs, st.currentTime, isLateShift)),
              draws |-> st.draws]

----------------------------------------------------------------------------
(* Week schedule aggregator *)

\* startOfWeek(selectedWeek, { weekStartsOn: 1 })
WeekStart(week) == startOfWeek(week)

\* Array.from({ length: 7 }, (_, i) => addDays(weekStart, i))
WeekDays(week) == [i \in 1..7 |-> addDays(WeekStart(week), i - 1)]

\* `${staffMember.id}-${format(day, "yyyy-MM-dd")}`
ScheduleKey(id, day) == <<id, "-", FormatDate(day)>>

\* IsScheduledStaff that asks for a name as well
IsScheduledStaffWithName(s) ==
    Get(s, "role") = "staff" /\ Has(s, "id") /\ Has(s, "name")

\* staff.filter((s) => s && s.role === "staff" && s.id)
IsScheduledStaff(s) == Get(s, "role") = "staff" /\ Has(s, "id")

EmptySchedules == [k \in {} |-> <<>>]

\* newSchedules[key] = entries
PutSchedule(map, key, entries) ==
    [k \in DOMAIN map \cup {key} |-> IF k = key THEN entries ELSE map[k]]

\* the cells in the order of the two nested forEach loops
WeekCells(staffList, week) ==
    LET eligible == SelectSeq(staffList, IsScheduledStaff)
    IN  [c \in 1..(7 * Len(eligible)) |->
            [staffMember |-> eligible[((c - 1) \div 7) + 1],
             day |-> WeekDays(week)[((c - 1) % 7) + 1]]]

\* CellStep whose catch block starts the map afresh
CellStepDropsOthers(acc, cell, allJobs, rnd) ==
    IF ~IsValidDate(cell.day)
    THEN [acc EXCEPT !.threw = TRUE]
    ELSE
    LET key == <<cell.staffMember.id, "-", CivilFromDays(cell.day.day)>>
        r   == generateDaySchedule(cell.staffMember, cell.day, allJobs, rnd,
                                   acc.draws)
    IN  [schedules |-> IF r.threw
                       THEN [k \in {key} |-> <<>>]
                       ELSE [k \in DOMAIN acc.schedules \cup {key} |->
                                IF k = key THEN r.entries ELSE acc.schedules[k]],
         draws |-> r.draws,
         threw |-> FALSE]

\* the try/catch of one cell; acc is [schedules, draws, threw].  For an
\* invalid day format throws in the try block and again in the catch block,
\* and the second exception leaves generateSchedules.
CellStep(acc, cell, allJobs, rnd) ==
    IF ~IsValidDate(cell.day)
    THEN [acc EXCEPT !.threw = TRUE]
    ELSE
    LET key == ScheduleKey(cell.staffMember.id, cell.day)
        r   == generateDaySchedule(cell.staffMember, cell.day, allJobs, rnd,
                                   acc.draws)
    IN  [schedules |-> PutSchedule(acc.schedules, key,
                                   IF r.threw THEN <<>> ELSE r.entries),
         draws |-> r.draws,
         threw |-> FALSE]

RECURSIVE CellLoop(_, _, _, _, _)
CellLoop(acc, cells, c, allJobs, rnd) ==
    IF c > Len(cells) \/ acc.threw THEN acc
    ELSE CellLoop(CellStep(acc, cells[c], allJobs, rnd), cells, c + 1,
                  allJobs, rnd)

\* generateSchedules() for the given props and week: [schedules, draws, threw]
generateSchedules(staffList, allJobs, week, rnd) ==
    CellLoop([schedules |-> EmptySchedules, draws |-> 0, threw |-> FALSE],
             WeekCells(staffList, week), 1, allJobs, rnd)

\* JobsAfterDay of a builder that sorts the job list itself: the matching
\* jobs move to the front in the order of their due dates
JobsAfterDaySortedInPlace(allJobs, staffMember, date) ==
    IF ~Has(staffMember, "id") THEN allJobs
    ELSE SortByDue(SelectSeq(allJobs, LAMBDA job : IsDayJob(job, staffMember, date)))
         \o SelectSeq(allJobs, LAMBDA job : ~IsDayJob(job, staffMember, date))

\* the array of the jobs prop after generateDaySchedule: filter returns a
\* new array dayJobs, and sort reorders dayJobs in place and returns it, so
\* the arrays of the build are jobs and dayJobs and only dayJobs is written
JobsAfterDay(allJobs, staffMember, date) ==
    IF ~Has(staffMember, "id") THEN allJobs
    ELSE LET afterFilter ==
                 [jobs |-> allJobs,
                  dayJobs |-> SelectSeq(allJobs,
                                  LAMBDA job : IsDayJob(job, staffMember, date))]
             afterSort == [afterFilter EXCEPT !.dayJobs = SortByDue(@)]
         IN  afterSort.jobs

\* the array of the jobs prop after the cells from c on have been built
RECURSIVE JobsAfterCells(_, _, _)
JobsAfterCells(allJobs, cells, c) ==
    IF c > Len(cells) \/ ~IsValidDate(cells[c].day) THEN allJobs
    ELSE JobsAfterCells(JobsAfterDay(allJobs, cells[c].staffMember, cells[c].day),
                        cells, c + 1)

\* the arrays of the two props after generateSchedules: staff.filter returns
\* a new array and the records of both lists are only read
JobsAfterBuild(staffList, allJobs, week) ==
    JobsAfterCells(allJobs, WeekCells(staffList, week), 1)

StaffAfterBuild(staffList, allJobs, week) ==
    LET eligible == SelectSeq(staffList, IsScheduledStaff)
    IN  staffList

----------------------------------------------------------------------------
(* Inputs *)

Iso(y, mo, d, h, mi, s) == [y |-> y, mo |-> mo, d |-> d, h |-> h, mi |-> mi, s |-> s]

\* the staff records the lists are drawn from
StaffPool == <<
    [id |-> "s1", name |-> "Ann", role |-> "staff",
     location |-> [city |-> "Johannesburg"],
     schedule |-> [shiftStartTime |-> HHMM(6, 0)]],
    [id |-> "s2", name |-> "Ben", role |-> "staff",
     location |-> [city |-> "Cape Town"],
     schedule |-> [workingLateShift |-> TRUE]],
    [id |-> "s3", name |-> "Cat", role |-> "staff",
     location |-> [city |-> "constructor"],
     schedule |-> [workingLateShift |-> FALSE]],
    [id |-> "s4", role |-> "staff",
     location |-> [city |-> "Durban"],
     schedule |-> [workingLateShift |-> FALSE]],
    [id |-> "a1", name |-> "Dan", role |-> "admin",
     location |-> [city |-> "Johannesburg"]],
    [name |-> "Eve", role |-> "staff"]
>>

\* the jobs the lists are drawn from; 2024-01-01 is the Monday of week 0
JobPool == <<
    [id |-> "j1", assignedTo |-> "s1", dueDate |-> Iso(2024, 1, 1, 16, 30, 0),
     category |-> "Geyser Replacement", title |-> "Replace geyser",
     riskAddress |-> "12 Oak Ave"],
    [id |-> "j2", assignedTo |-> "s1", dueDate |-> Iso(2024, 1, 1, 8, 0, 0),
     category |-> "Leak Detection", riskAddress |-> "123 Main Rd"],
    [id |-> "j3", assignedTo |-> "s1", dueDate |-> Iso(2024, 1, 1, 8, 0, 0),
     category |-> "Roof Repair", title |-> "Fix roof",
     RiskAddress |-> "7 Hill St\nSandton"],
    [id |-> "j4", assignedTo |-> "s2", dueDate |-> Iso(2024, 1, 9, 23, 30, 0),
     category |-> "Drain Blockage", title |-> "Unblock drain"],
    [id |-> "j5", assignedTo |-> "s1", dueDate |-> Iso(2024, 1, 1, 0, 10, 0),
     category |-> "Camera Inspection", title |-> "Inspect sewer"],
    [id |-> "j6", assignedTo |-> "s3", dueDate |-> Iso(2024, 1, 3, 9, 0, 0),
     category |-> "Toilet/Shower", title |-> "Repair shower"],
    [assignedTo |-> "s1", dueDate |-> Iso(2024, 1, 1, 9, 0, 0),
     category |-> "Geyser Assessment", title |-> "Assess geyser"],
    [id |-> "j8", assignedTo |-> "s1", title |-> "No due date"],
    [id |-> "j9", dueDate |-> Iso(2024, 1, 1, 10, 0, 0), title |-> "Unassigned"],
    [id |-> "j10", assignedTo |-> "s1", dueDate |-> Iso(2024, 13, 1, 8, 0, 0),
     title |-> "Bad date"]
>>

\* the elements of pool at the positions in picked, in the order of pool
RECURSIVE Pick(_, _, _)
Pick(pool, i, picked) ==
    IF i > Len(pool) THEN <<>>
    ELSE (IF i \in picked THEN <<pool[i]>> ELSE <<>>) \o Pick(pool, i + 1, picked)

\* the lists of at most n elements of pool
ListsUpTo(pool, n) ==
    {Pick(pool, 1, picked) :
        picked \in {P \in SUBSET (1..Len(pool)) : Cardinality(P) <= n}}

\* the job lists and staff lists of the props
JobLists == ListsUpTo(JobPool, MaxJobs)
StaffLists == ListsUpTo(StaffPool, MaxStaff)
PropJobLists == ListsUpTo(JobPool, MaxPropJobs)
PropStaffLists == ListsUpTo(StaffPool, MaxPropStaff)

\* pairs of Math.random() results, in units of 1e-3
RandomPairs == {<<965, 94>>, <<865, 94>>}

\* what new Date() can return: a Thursday of week 0, a Wednesday of week 1,
\* a Sunday of week -1, a Wednesday of week -2
BuildClock ==
    {parseISO(Iso(2024, 1, 4, 10, 15, 0)), parseISO(Iso(2024, 1, 10, 9, 0, 0)),
     parseISO(Iso(2023, 12, 31, 23, 0, 0)), parseISO(Iso(2023, 12, 20, 7, 30, 0))}

\* the clock of the interactive specification: a day of week 0, and a day of
\* the last week before the week that holds the largest Date
Clock ==
    {parseISO(Iso(2024, 1, 4, 10, 15, 0)), parseISO(Iso(275760, 9, 3, 12, 0, 0))}

\* the number of random pairs a week build can draw: two per processed job
DrawsNeeded(staffList, allJobs, week) ==
    LET cells == WeekCells(staffList, week)
    IN  2 * Cardinality(
            {<<c, j>> \in (1..Len(cells)) \X (1..Len(allJobs)) :
                /\ Has(allJobs[j], "id")
                /\ IsDayJob(allJobs[j], cells[c].staffMember, cells[c].day)})

----------------------------------------------------------------------------
(* The component *)

\* staff.filter((s) => s && s.role === "staff" && s.id && s.name) of the JSX
IsRenderedStaff(s) == IsScheduledStaff(s) /\ Has(s, "name")

\* rendering throws: format() of an Invalid Date, for the week badge or for a
\* day row of a rendered staff member
RenderThrows(staffList, week) ==
    \/ ~IsValidDate(WeekStart(week))
    \/ /\ \E i \in 1..Len(staffList) : IsRenderedStaff(staffList[i])
       /\ \E d \in 1..7 : ~IsValidDate(WeekDays(week)[d])

\* a render with the given props and state: React runs the effect after a
\* render that completes, and drops the component when the render throws
Render(staffList, week) ==
    IF RenderThrows(staffList, week)
    THEN failure' = "render" /\ effectPending' = FALSE
    ELSE failure' = failure /\ effectPending' = TRUE

\* first render
Mount ==
    /\ ~mounted /\ failure = "none"
    /\ mounted' = TRUE
    /\ Render(staff, selectedWeek)
    /\ UNCHANGED <<jobs, staff, selectedWeek, schedules, download, call>>
    /\ UNCHANGED <<ServerVars, LayoutVars>>

\* the effect of [jobs, staff, selectedWeek]: generateSchedules() and
\* setSchedules(newSchedules), or the exception that leaves it.  React runs
\* it after the render that a changed dependency causes and before the next
\* event is handled.
useEffect ==
    /\ effectPending
    /\ effectPending' = FALSE
    /\ \E rnd \in [1..DrawsNeeded(staff, jobs, selectedWeek) -> RandomPairs] :
          LET r == generateSchedules(staff, jobs, selectedWeek, rnd)
          IN  /\ schedules' = IF r.threw THEN schedules ELSE r.schedules
              /\ failure' = IF r.threw THEN "effect" ELSE failure
    /\ jobs' = JobsAfterBuild(staff, jobs, selectedWeek)
    /\ staff' = StaffAfterBuild(staff, jobs, selectedWeek)
    /\ UNCHANGED <<selectedWeek, mounted, download, call>>
    /\ UNCHANGED <<ServerVars, LayoutVars>>

\* the component handles events once it has rendered and its effect has run
Idle == mounted /\ ~effectPending /\ failure = "none"

\* the week buttons stay within MaxNavWeeks weeks of a clock value
InNavWindow(week) ==
    IF ~IsValidDate(week) THEN TRUE
    ELSE \E now \in Clock :
            /\ week.day - now.day <= 7 * MaxNavWeeks
            /\ now.day - week.day <= 7 * MaxNavWeeks

\* setSelectedWeek(week): the state changes and the component renders again
SetSelectedWeek(week) ==
    /\ Idle
    /\ InNavWindow(week)
    /\ selectedWeek' = week
    /\ Render(staff, week)
    /\ UNCHANGED <<jobs, staff, schedules, mounted, download, call>>
    /\ UNCHANGED <<ServerVars, LayoutVars>>

PreviousWeek == SetSelectedWeek(addWeeks(selectedWeek, -1))

CurrentWeek == \E now \in Clock : SetSelectedWeek(now)

NextWeek == SetSelectedWeek(addWeeks(selectedWeek, 1))

\* the parent passes a new job list
JobsChanged ==
    /\ Idle
    /\ \E newJobs \in PropJobLists : jobs' = newJobs
    /\ Render(staff, selectedWeek)
    /\ UNCHANGED <<staff, selectedWeek, schedules, mounted, download, call>>
    /\ UNCHANGED <<ServerVars, LayoutVars>>

\* the parent passes a new staff list
StaffChanged ==
    /\ Idle
    /\ \E newStaff \in PropStaffLists :
          /\ staff' = newStaff
          /\ Render(newStaff, selectedWeek)
    /\ UNCHANGED <<jobs, selectedWeek, schedules, mounted, download, call>>
    /\ UNCHANGED <<ServerVars, LayoutVars>>

----------------------------------------------------------------------------
(* CSV export *)

\* n.toString().padStart(2, "0") as text, for the "MM" and "dd" of format
Pad2Text(n) == IF n < 10 THEN "0" \o ToString(n) ELSE ToString(n)

\* the "yyyy" of format: at least four digits
YearText(y) ==
    IF y >= 1000 THEN ToString(y)
    ELSE IF y >= 100 THEN "0" \o ToString(y)
    ELSE IF y >= 10 THEN "00" \o ToString(y)
    ELSE "000" \o ToString(y)

\* format(day, "yyyy-MM-dd") as text
DateText(day) ==
    LET c == FormatDate(day)
    IN  YearText(c[1]) \o "-" \o Pad2Text(c[2]) \o "-" \o Pad2Text(c[3])

\* an "HH:mm" string as text
TimeText(time) ==
    ToString(time[1]) \o ToString(time[2]) \o ":"
        \o ToString(time[4]) \o ToString(time[5])

\* `${entry.location}`: the template of the entry's type, "undefined" when
\* the entry has no location
LocationText(entry) ==
    IF ~Has(entry, "location") THEN "undefined"
    ELSE IF entry.type = "travel" THEN entry.location[1] \o entry.location[2]
    ELSE entry.location[1]

\* `${entry.description}`
DescriptionText(entry) ==
    IF entry.type = "travel"
    THEN entry.description[1] \o ToString(entry.description[2])
            \o entry.description[3]
    ELSE IF entry.type = "end"
    THEN entry.description[1] \o entry.description[2]
    ELSE entry.description[1]

\* entry.estimatedDuration || 0
DurationText(entry) ==
    IF Has(entry, "estimatedDuration") /\ entry.estimatedDuration # 0
    THEN ToString(entry.estimatedDuration)
    ELSE "0"

\* headers.join(",")
CsvHeader == "Date,Time,Type,Location,Description,Duration (min)"

\* CsvRow that leaves the location and the description bare
CsvRowUnquoted(day, entry) ==
    DateText(day) \o "," \o TimeText(entry.time) \o "," \o entry.type \o ","
        \o LocationText(entry) \o "," \o DescriptionText(entry) \o ","
        \o DurationText(entry)

\* the row pushed for one entry of a day
CsvRow(day, entry) ==
    DateText(day) \o "," \o TimeText(entry.time) \o "," \o entry.type \o ","
        \o "\"" \o LocationText(entry) \o "\"" \o ","
        \o "\"" \o DescriptionText(entry) \o "\"" \o ","
        \o DurationText(entry)

\* schedules[key] || []
DayScheduleOf(map, staffId, day) ==
    IF ScheduleKey(staffId, day) \in DOMAIN map
    THEN map[ScheduleKey(staffId, day)] ELSE <<>>

\* DayRows that pushes the entries of a day last to first
DayRowsReversed(map, staffId, day) ==
    LET daySchedule == DayScheduleOf(map, staffId, day)
    IN  [k \in 1..Len(daySchedule) |->
            CsvRow(day, daySchedule[Len(daySchedule) + 1 - k])]

\* daySchedule.forEach: the rows of one day
DayRows(map, staffId, day) ==
    LET daySchedule == DayScheduleOf(map, staffId, day)
    IN  [k \in 1..Len(daySchedule) |-> CsvRow(day, daySchedule[k])]

\* weekDays.forEach: the rows of days d..7
RECURSIVE WeekRows(_, _, _, _)
WeekRows(map, staffId, week, d) ==
    IF d > 7 THEN <<>>
    ELSE DayRows(map, staffId, WeekDays(week)[d])
            \o WeekRows(map, staffId, week, d + 1)

\* rows.join("\n")
RECURSIVE JoinLines(_)
JoinLines(rows) ==
    IF Len(rows) = 0 THEN ""
    ELSE IF Len(rows) = 1 THEN rows[1]
    ELSE rows[1] \o "\n" \o JoinLines(Tail(rows))

\* staff.find((s) => s && s.id === staffId)
FindStaff(staffList, staffId) ==
    LET found == {i \in 1..Len(staffList) :
                     Has(staffList[i], "id") /\ staffList[i].id = staffId}
    IN  IF found = {} THEN <<>>
        ELSE <<staffList[CHOOSE i \in found : \A j \in found : i <= j]>>

\* the file exportScheduleCSV(staffId) offers for download: <<>> when the
\* staff member is not found
ExportFile(staffList, map, week, staffId) ==
    LET staffMember == FindStaff(staffList, staffId)
    IN  IF staffMember = <<>> THEN <<>>
        ELSE <<[staffId |-> staffId,
                filename |-> Get(staffMember[1], "name") \o "_schedule_"
                                \o DateText(WeekStart(week)) \o ".csv",
                content |-> JoinLines(<<CsvHeader>>
                                \o WeekRows(map, staffId, week, 1))]>>

----------------------------------------------------------------------------
(* The users collection and the layout store at start *)

\* the clock counts units of 10 minutes: a reset token lives for one unit
\* (10 * 60 * 1000 ms), a lock for twelve (2 * 60 * 60 * 1000 ms)
ResetTicks == 1
LockTicks == 12

\* a Date field that is not set
NoDate == 0

\* bcrypt.hash(password): the text is kept so that bcrypt.compare can be
\* answered
Bcrypt(password) == <<"$2a$", password>>

\* crypto.createHash('sha256').update(token).digest('hex')
Sha256(token) == <<"sha256", token>>

NoToken == <<>>

Usernames == {"vinesh", "rona"}

\* the documents of the two accounts: loginAttempts defaults to 0, the
\* other fields are not set
InitialUsers ==
    [u \in Usernames |->
        [password |-> Bcrypt(IF u = "rona" THEN "Rontry999" ELSE "vinesh123"),
         loginAttempts |-> 0,
         lockUntil |-> NoDate,
         passwordResetToken |-> NoToken,
         passwordResetExpires |-> NoDate]]

FreeSlot == [pc |-> "free"]

InitServer ==
    /\ users = InitialUsers
    /\ clock = 1
    /\ reqs = [r \in 1..MaxRequests |-> FreeSlot]
    /\ spent = {}

\* createDefaultLayout(); of a layout the model keeps id and version
DefaultLayout == [id |-> "default-layout", version |-> 1]

\* no layout request has been answered
NoReply == [op |-> "none"]

\* module load on a default installation: no file exists, layouts is empty
\* and the default layout is pushed and made active
InitLayouts ==
    /\ layouts = <<DefaultLayout>>
    /\ activeLayout = <<DefaultLayout>>
    /\ reply = NoReply

\* the Export button of a rendered staff member
exportScheduleCSV ==
    /\ Idle
    /\ \E i \in 1..Len(staff) :
          /\ IsRenderedStaff(staff[i])
          /\ download' = ExportFile(staff, schedules, selectedWeek, staff[i].id)
    /\ UNCHANGED <<jobs, staff, selectedWeek, schedules, mounted,
                   effectPending, failure, call>>
    /\ UNCHANGED <<ServerVars, LayoutVars>>

Init ==
    /\ jobs \in PropJobLists
    /\ staff \in PropStaffLists
    /\ selectedWeek \in Clock
    /\ schedules = EmptySchedules
    /\ mounted = FALSE
    /\ effectPending = FALSE
    /\ failure = "none"
    /\ download = <<>>
    /\ call = <<>>
    /\ InitServer
    /\ InitLayouts

Next ==
    \/ Mount
    \/ useEffect
    \/ PreviousWeek
    \/ CurrentWeek
    \/ NextWeek
    \/ JobsChanged
    \/ StaffChanged

Spec == Init /\ [][Next]_vars

\* the week build as a function of its inputs: any lists, any week, built once
InitBuild ==
    /\ jobs \in JobLists
    /\ staff \in StaffLists
    /\ selectedWeek \in BuildClock
    /\ schedules = EmptySchedules
    /\ mounted = FALSE
    /\ effectPending = FALSE
    /\ failure = "none"
    /\ download = <<>>
    /\ call = <<>>
    /\ InitServer
    /\ InitLayouts

NextBuild == Mount \/ useEffect

SpecBuild == InitBuild /\ [][NextBuild]_vars

\* the export of a built week: any job list, one week build, then exports.
\* An export leaves the state of the component as it is, so the events of
\* Next and the exports are explored apart.
InitExport ==
    /\ jobs \in JobLists
    /\ staff \in PropStaffLists
    /\ selectedWeek \in BuildClock
    /\ schedules = EmptySchedules
    /\ mounted = FALSE
    /\ effectPending = FALSE
    /\ failure = "none"
    /\ download = <<>>
    /\ call = <<>>
    /\ InitServer
    /\ InitLayouts

NextExport == Mount \/ useEffect \/ exportScheduleCSV

SpecExport == InitExport /\ [][NextExport]_vars

----------------------------------------------------------------------------
(* Calls of the helper functions *)

\* the valid "HH:mm" strings the helpers are called with
TimePool == {HHMM(h, m) : h \in 0..23, m \in {0, 10, 30, 50, 59}}

\* minute counts: everything up to MaxMinutes, and a day and more
MinutePool == (0..MaxMinutes) \cup {1440, 1500, 2880}

\* job categories: those of the table, others, the empty string and none
CategoryPool ==
    {"Geyser Replacement", "Geyser Assessment", "Leak Detection",
     "Drain Blockage", "Camera Inspection", "Toilet/Shower", "Roof Repair",
     "geyser replacement", "Other", "", Undefined}

\* coordinate differences in units of 1e-4 degree, none of them on a
\* rounding boundary of distance * 3000
DeltaPool == {-12000, -250, -120, -48, -16, 0, 16, 49, 50, 51, 120, 199, 205}

\* a pending call of helper fn with arguments args
PendingCall(fn, args) ==
    <<[fn |-> fn, args |-> args, done |-> FALSE, result |-> <<>>]>>

IsPending(fn) == call # <<>> /\ ~call[1].done /\ call[1].fn = fn

Return(value) == call' = <<[call[1] EXCEPT !.done = TRUE, !.result = value]>>

\* the state of the component while the helpers are called
ComponentVars ==
    <<jobs, staff, selectedWeek, schedules, mounted, effectPending, failure,
      download>>

CallAddMinutes ==
    /\ IsPending("addMinutes")
    /\ Return(addMinutes(call[1].args[1], call[1].args[2]))
    /\ UNCHANGED <<ComponentVars, ServerVars, LayoutVars>>

CallSubtractMinutes ==
    /\ IsPending("subtractMinutes")
    /\ Return(subtractMinutes(call[1].args[1], call[1].args[2]))
    /\ UNCHANGED <<ComponentVars, ServerVars, LayoutVars>>

CallGetJobDuration ==
    /\ IsPending("getJobDuration")
    /\ Return(getJobDuration(call[1].args[1]))
    /\ UNCHANGED <<ComponentVars, ServerVars, LayoutVars>>

CallEstimateTravelTime ==
    /\ IsPending("estimateTravelTime")
    /\ Return(estimateTravelTime(call[1].args[1], call[1].args[2]))
    /\ UNCHANGED <<ComponentVars, ServerVars, LayoutVars>>

\* the helpers called on their own, the component not rendered: the
\* arguments are drawn here, one of the actions applies the helper
InitHelpers ==
    /\ jobs = <<>>
    /\ staff = <<>>
    /\ selectedWeek = parseISO(Iso(2024, 1, 4, 10, 15, 0))
    /\ schedules = EmptySchedules
    /\ mounted = FALSE
    /\ effectPending = FALSE
    /\ failure = "none"
    /\ download = <<>>
    /\ InitServer
    /\ InitLayouts
    /\ \/ \E time \in TimePool, minutes \in MinutePool :
              call = PendingCall("addMinutes", <<time, minutes>>)
       \/ \E time \in TimePool, minutes \in MinutePool :
              call = PendingCall("subtractMinutes", <<time, minutes>>)
       \/ \E category \in CategoryPool :
              call = PendingCall("getJobDuration", <<category>>)
       \/ \E base \in DOMAIN BASE_LOCATIONS, dlat \in DeltaPool,
              dlng \in DeltaPool :
              LET from == BASE_LOCATIONS[base].coordinates
              IN  call = PendingCall("estimateTravelTime",
                      <<from, [lat |-> from.lat + dlat, lng |-> from.lng + dlng]>>)

NextHelpers ==
    \/ CallAddMinutes
    \/ CallSubtractMinutes
    \/ CallGetJobDuration
    \/ CallEstimateTravelTime

SpecHelpers == InitHelpers /\ [][NextHelpers]_vars

----------------------------------------------------------------------------
(* User routes: login *)

\* user.isLocked() for the document read: lockUntil && lockUntil > new Date()
isLocked(user) == user.lockUntil # NoDate /\ user.lockUntil > clock

\* user.comparePassword(candidate) for a hashed password
comparePassword(user, candidate) == user.password = Bcrypt(candidate)

\* user.incLoginAttempts(): the update is decided on the document read
\* (user) and applied to the stored document (stored)
incLoginAttempts(stored, user) ==
    IF user.lockUntil # NoDate /\ user.lockUntil < clock
    THEN [stored EXCEPT !.lockUntil = NoDate, !.loginAttempts = 1]
    ELSE IF user.loginAttempts + 1 >= 5 /\ ~isLocked(user)
         THEN [stored EXCEPT !.loginAttempts = @ + 1,
                             !.lockUntil = clock + LockTicks]
         ELSE [stored EXCEPT !.loginAttempts = @ + 1]

\* user.resetLoginAttempts(): $unset of loginAttempts and lockUntil; a
\* document without loginAttempts is read with the default 0
resetLoginAttempts(stored) ==
    [stored EXCEPT !.loginAttempts = 0, !.lockUntil = NoDate]

\* the passwords a login request carries
LoginPasswords == {"vinesh123", "Rontry999", "wrong-password"}

IsFree(r) == reqs[r].pc \in {"free", "done"}

Done(kind, status, error) ==
    [pc |-> "done", kind |-> kind, status |-> status, error |-> error]

\* handleSecureLogin up to the answer of User.findOne: the account exists
\* and username and password pass the validation
LoginFind(r) ==
    /\ IsFree(r)
    /\ \E username \in Usernames, password \in LoginPasswords :
          LET user == users[username]
          IN  reqs' = [reqs EXCEPT ![r] =
                  IF isLocked(user) /\ username # "rona"
                  THEN Done("login", 423, "Account temporarily locked")
                  ELSE [pc |-> "found", kind |-> "login",
                        username |-> username, user |-> user,
                        password |-> password]]
    /\ UNCHANGED <<users, clock, spent>>
    /\ UNCHANGED <<ComponentVars, call, LayoutVars>>

\* handleSecureLogin from the password comparison on: a wrong password
\* counts as a failed attempt unless the account is rona, a right one
\* resets the attempts
LoginFinish(r) ==
    /\ reqs[r].pc = "found" /\ reqs[r].kind = "login"
    /\ LET username == reqs[r].username
           stored   == users[username]
       IN  IF ~comparePassword(reqs[r].user, reqs[r].password)
           THEN /\ username # "rona" => stored.loginAttempts < MaxAttempts
                /\ users' = IF username # "rona"
                            THEN [users EXCEPT ![username] =
                                      incLoginAttempts(stored, reqs[r].user)]
                            ELSE users
                /\ reqs' = [reqs EXCEPT ![r] =
                               Done("login", 401, "Invalid credentials")]
           ELSE /\ users' = [users EXCEPT ![username] = resetLoginAttempts(stored)]
                /\ reqs' = [reqs EXCEPT ![r] = Done("login", 200, "")]
    /\ UNCHANGED <<clock, spent>>
    /\ UNCHANGED <<ComponentVars, call, LayoutVars>>

\* time passes: by one unit, or by the length of a lock
Tick ==
    /\ \E d \in {1, LockTicks} :
          /\ clock + d <= MaxNow
          /\ clock' = clock + d
    /\ UNCHANGED <<users, reqs, spent>>
    /\ UNCHANGED <<ComponentVars, call, LayoutVars>>

NextLogin ==
    \/ \E r \in 1..MaxRequests : LoginFind(r)
    \/ \E r \in 1..MaxRequests : LoginFinish(r)
    \/ Tick

\* the login route alone, on the two accounts
InitLogin ==
    /\ jobs = <<>>
    /\ staff = <<>>
    /\ selectedWeek = parseISO(Iso(2024, 1, 4, 10, 15, 0))
    /\ schedules = EmptySchedules
    /\ mounted = FALSE
    /\ effectPending = FALSE
    /\ failure = "none"
    /\ download = <<>>
    /\ call = <<>>
    /\ InitServer
    /\ InitLayouts

SpecLogin == InitLogin /\ [][NextLogin]_vars

(* User routes: password reset *)

\* the reset tokens crypto.randomBytes(32) yields
Tokens == {"t1", "t2"}

\* token and password of the body of a reset: each may be missing, the
\* password may be shorter than six characters
BodyTokens == Tokens \cup {""}
BodyPasswords == {"", "abc", "secret1", "secret2"}

\* validator.isLength(password, { min: 6, max: 128 })
isLength(password) == Len(password) >= 6 /\ Len(password) <= 128

\* the answer of a reset, kept with the token of its body
ResetDone(token, status, error) ==
    [pc |-> "done", kind |-> "reset", token |-> token,
     status |-> status, error |-> error]

\* the account whose password is reset
ResetUsernames == {"vinesh"}

\* handlePasswordResetRequest for an existing account:
\* user.generatePasswordResetToken() stores the hash of a fresh token and
\* its expiry, user.save() writes both
handlePasswordResetRequest ==
    /\ \E username \in ResetUsernames, resetToken \in Tokens :
          /\ \A u \in Usernames :
                users[u].passwordResetToken # Sha256(resetToken)
          /\ users' = [users EXCEPT ![username] =
                 [@ EXCEPT !.passwordResetToken = Sha256(resetToken),
                           !.passwordResetExpires = clock + ResetTicks]]
    /\ spent' = {}
    /\ UNCHANGED <<clock, reqs>>
    /\ UNCHANGED <<ComponentVars, call, LayoutVars>>

\* the accounts User.findOne matches for a reset token
FindByResetToken(token) ==
    {u \in Usernames :
        /\ users[u].passwordResetToken = Sha256(token)
        /\ users[u].passwordResetExpires > clock}

\* handlePasswordReset up to the answer of User.findOne
ResetFind(r) ==
    /\ IsFree(r)
    /\ \E token \in BodyTokens, password \in BodyPasswords :
          reqs' = [reqs EXCEPT ![r] =
              IF token = "" \/ password = ""
              THEN ResetDone(token, 400, "Token and password are required")
              ELSE IF ~isLength(password)
              THEN ResetDone(token, 400,
                       "Password must be between 6 and 128 characters long")
              ELSE IF FindByResetToken(token) = {}
              THEN ResetDone(token, 400, "Token is invalid or has expired")
              ELSE LET username == CHOOSE u \in FindByResetToken(token) : TRUE
                   IN  [pc |-> "found", kind |-> "reset",
                        username |-> username, user |-> users[username],
                        token |-> token, password |-> password]]
    /\ UNCHANGED <<users, clock, spent>>
    /\ UNCHANGED <<ComponentVars, call, LayoutVars>>

\* user.save() after the assignments of handlePasswordReset: the paths whose
\* value differs from the document read are written, the password hashed by
\* the pre-save hook
SaveReset(stored, user, password) ==
    [stored EXCEPT
        !.password = Bcrypt(password),
        !.passwordResetToken = NoToken,
        !.passwordResetExpires = NoDate,
        !.loginAttempts = IF user.loginAttempts # 0 THEN 0 ELSE @,
        !.lockUntil = IF user.lockUntil # NoDate THEN NoDate ELSE @]

\* handlePasswordReset from the assignments on
ResetSave(r) ==
    /\ reqs[r].pc = "found" /\ reqs[r].kind = "reset"
    /\ users' = [users EXCEPT ![reqs[r].username] =
                    SaveReset(@, reqs[r].user, reqs[r].password)]
    /\ reqs' = [reqs EXCEPT ![r] = ResetDone(reqs[r].token, 200, "")]
    /\ spent' = spent \cup {reqs[r].token}
    /\ UNCHANGED clock
    /\ UNCHANGED <<ComponentVars, call, LayoutVars>>

NextReset ==
    \/ handlePasswordResetRequest
    \/ \E r \in 1..MaxRequests : ResetFind(r)
    \/ \E r \in 1..MaxRequests : ResetSave(r)
    \/ Tick

\* failed logins an account can have at the time of a reset: none, three,
\* or five with the lock they set
AttemptsAtReset == {<<0, NoDate>>, <<3, NoDate>>, <<5, 1 + LockTicks>>}

\* the resets begin this many ticks before the end of the clock
ResetSpan == 3

\* the reset routes alone
InitReset ==
    /\ jobs = <<>>
    /\ staff = <<>>
    /\ selectedWeek = parseISO(Iso(2024, 1, 4, 10, 15, 0))
    /\ schedules = EmptySchedules
    /\ mounted = FALSE
    /\ effectPending = FALSE
    /\ failure = "none"
    /\ download = <<>>
    /\ call = <<>>
    /\ \E a \in AttemptsAtReset :
          users = [InitialUsers EXCEPT !["vinesh"].loginAttempts = a[1],
                                       !["vinesh"].lockUntil = a[2]]
    /\ clock = MaxNow - ResetSpan
    /\ reqs = [r \in 1..MaxRequests |-> FreeSlot]
    /\ spent = {}
    /\ InitLayouts

SpecReset == InitReset /\ [][NextReset]_vars

(* Layout routes *)

\* the answer of a layout route to the request for layout id
Reply(op, id, status, error) ==
    [op |-> op, id |-> id, status |-> status, error |-> error]

\* layouts.findIndex(l => l.id === id): 0 stands for -1
findIndex(id) ==
    IF \E i \in 1..Len(layouts) : layouts[i].id = id
    THEN CHOOSE i \in 1..Len(layouts) :
            /\ layouts[i].id = id
            /\ \A k \in 1..(i - 1) : layouts[k].id # id
    ELSE 0

\* the ids a request names: those of the stored layouts, two more, and none
RequestIds ==
    {layouts[i].id : i \in 1..Len(layouts)} \cup {"custom-layout", "no-such-layout"}

\* the body of a save or of an import: name and components may be missing,
\* a component may lack a required field
BodyNames == {"", "Custom"}
BodyComponents == {"missing", "malformed", "wellformed"}

\* handleDeleteLayout without the test for the active layout
handleDeleteLayoutOfAny(id) ==
    LET layoutIndex == findIndex(id)
    IN  /\ IF layoutIndex = 0
           THEN /\ reply' = Reply("delete", id, 404, "Layout not found")
                /\ UNCHANGED layouts
           ELSE /\ layouts' = SubSeq(layouts, 1, layoutIndex - 1)
                                \o SubSeq(layouts, layoutIndex + 1, Len(layouts))
                /\ reply' = Reply("delete", id, 200, "")
        /\ UNCHANGED activeLayout
        /\ UNCHANGED <<ComponentVars, call, ServerVars>>

\* handleSaveLayout: an existing id is updated with the next version, a new
\* one is pushed with version 1
handleSaveLayout(id, name, components) ==
    LET existingIndex == findIndex(id)
    IN  /\ IF id = "" \/ name = "" \/ components = "missing"
           THEN /\ reply' = Reply("save", id, 400, "Missing required fields")
                /\ UNCHANGED layouts
           ELSE IF components = "malformed"
           THEN /\ reply' = Reply("save", id, 400, "Invalid component structure")
                /\ UNCHANGED layouts
           ELSE IF existingIndex > 0
           THEN /\ layouts[existingIndex].version < MaxVersion
                /\ layouts' = [layouts EXCEPT ![existingIndex] =
                       [id |-> id, version |-> layouts[existingIndex].version + 1]]
                /\ reply' = Reply("save", id, 200, "")
           ELSE /\ Len(layouts) < MaxLayouts
                /\ layouts' = Append(layouts, [id |-> id, version |-> 1])
                /\ reply' = Reply("save", id, 200, "")
        /\ UNCHANGED activeLayout
        /\ UNCHANGED <<ComponentVars, call, ServerVars>>

\* handleSetActiveLayout: the active layout is a copy of the stored one
handleSetActiveLayout(id) ==
    LET index == findIndex(id)
    IN  /\ IF index = 0
           THEN /\ reply' = Reply("activate", id, 404, "Layout not found")
                /\ UNCHANGED activeLayout
           ELSE /\ activeLayout' = <<[id |-> layouts[index].id,
                                      version |-> layouts[index].version,
                                      isActive |-> TRUE]>>
                /\ reply' = Reply("activate", id, 200, "")
        /\ UNCHANGED layouts
        /\ UNCHANGED <<ComponentVars, call, ServerVars>>

\* handleDeleteLayout: activeLayout?.id === id refuses the deletion
handleDeleteLayout(id) ==
    LET layoutIndex == findIndex(id)
    IN  /\ IF layoutIndex = 0
           THEN /\ reply' = Reply("delete", id, 404, "Layout not found")
                /\ UNCHANGED layouts
           ELSE IF activeLayout # <<>> /\ activeLayout[1].id = id
           THEN /\ reply' = Reply("delete", id, 400,
                                  "Cannot delete the active layout")
                /\ UNCHANGED layouts
           ELSE /\ layouts' = SubSeq(layouts, 1, layoutIndex - 1)
                                \o SubSeq(layouts, layoutIndex + 1, Len(layouts))
                /\ reply' = Reply("delete", id, 200, "")
        /\ UNCHANGED activeLayout
        /\ UNCHANGED <<ComponentVars, call, ServerVars>>

\* handleCloneLayout: the copy gets the id `layout-${Date.now()}`
handleCloneLayout(id) ==
    LET index == findIndex(id)
    IN  /\ IF index = 0
           THEN /\ reply' = Reply("clone", id, 404, "Source layout not found")
                /\ UNCHANGED layouts
           ELSE /\ Len(layouts) < MaxLayouts
                /\ layouts' = Append(layouts,
                       [id |-> "layout-" \o ToString(clock), version |-> 1])
                /\ reply' = Reply("clone", id, 200, "")
        /\ UNCHANGED activeLayout
        /\ UNCHANGED <<ComponentVars, call, ServerVars>>

\* handleImportLayout: the layout gets the id `imported-layout-${Date.now()}`
handleImportLayout(components) ==
    /\ IF components = "missing"
       THEN /\ reply' = Reply("import", "", 400, "Invalid layout format")
            /\ UNCHANGED layouts
       ELSE /\ Len(layouts) < MaxLayouts
            /\ layouts' = Append(layouts,
                   [id |-> "imported-layout-" \o ToString(clock), version |-> 1])
            /\ reply' = Reply("import", "", 200, "")
    /\ UNCHANGED activeLayout
    /\ UNCHANGED <<ComponentVars, call, ServerVars>>

NextLayouts ==
    \/ \E id \in RequestIds \cup {""}, name \in BodyNames,
          components \in BodyComponents : handleSaveLayout(id, name, components)
    \/ \E id \in RequestIds : handleSetActiveLayout(id)
    \/ \E id \in RequestIds : handleDeleteLayout(id)
    \/ \E id \in RequestIds : handleCloneLayout(id)
    \/ \E components \in BodyComponents : handleImportLayout(components)
    \/ Tick

\* the layout routes alone, from the default installation
InitLayoutRoutes ==
    /\ jobs = <<>>
    /\ staff = <<>>
    /\ selectedWeek = parseISO(Iso(2024, 1, 4, 10, 15, 0))
    /\ schedules = EmptySchedules
    /\ mounted = FALSE
    /\ effectPending = FALSE
    /\ failure = "none"
    /\ download = <<>>
    /\ call = <<>>
    /\ users = InitialUsers
    /\ clock = MaxNow - LayoutSpan
    /\ reqs = [r \in 1..MaxRequests |-> FreeSlot]
    /\ spent = {}
    /\ InitLayouts

SpecLayouts == InitLayoutRoutes /\ [][NextLayouts]_vars

----------------------------------------------------------------------------
(* Vocabulary of the properties *)

\* a week build has completed and its map is the state
Built == mounted /\ ~effectPending /\ failure = "none"

StaffIndexes == {i \in 1..Len(staff) : IsScheduledStaff(staff[i])}

\* the calendar day <<y, m, d>> written in an ISO date-time string
IsoDay(str) == <<str.y, str.mo, str.d>>

\* the job is assigned to the staff member and due on the calendar day
AssignedAndDue(job, staffMember, day) ==
    /\ Has(job, "assignedTo") /\ job.assignedTo = staffMember.id
    /\ Has(job, "dueDate") /\ IsoDay(job.dueDate) = FormatDate(day)

\* the cell of staff[i] on the d-th day of the selected week
CellDay(d) == WeekDays(selectedWeek)[d]
CellKey(i, d) == ScheduleKey(staff[i].id, CellDay(d))
HasCell(i, d) == CellKey(i, d) \in DOMAIN schedules
Cell(i, d) == schedules[CellKey(i, d)]

Last(seq) == seq[Len(seq)]

JobEntries(entries) == SelectSeq(entries, LAMBDA e : e.type = "job")

Time1700 == <<1, 7, ":", 0, 0>>
Time1900 == <<1, 9, ":", 0, 0>>
Time0500 == <<0, 5, ":", 0, 0>>

\* the late flag a cell shows in its end entry
ShowsLate(entries) == Last(entries).description[2] = "(Late Shift)"

\* minutes since midnight of an HH:mm string
MinutesOf(time) == (time[1] * 10 + time[2]) * 60 + time[4] * 10 + time[5]

----------------------------------------------------------------------------
(* C1 - end time floor *)

\* C1: in every day schedule the end entry's time is never earlier, by
\* compareTime, than the shift end of the cell: 19:00 on a late shift and
\* 17:00 otherwise, also when the last job finishes past midnight.
C1_EndTimeFloor ==
    \A i \in StaffIndexes : \A d \in 1..7 :
        (HasCell(i, d) /\ Cell(i, d) # <<>>) =>
            /\ Last(Cell(i, d)).type = "end"
            /\ compareTime(Last(Cell(i, d)).time,
                           IF IsLateShift(staff[i], CellDay(d))
                           THEN Time1900 ELSE Time1700) >= 0

\* a job finishing past midnight (its end wraps below its start) in a cell
\* whose end entry sits at the shift end
C1_Witness ==
    \E i \in StaffIndexes : \E d \in 1..7 :
        /\ HasCell(i, d) /\ Cell(i, d) # <<>>
        /\ \E k \in 1..Len(Cell(i, d)) :
              LET e == Cell(i, d)[k]
              IN  /\ e.type = "job"
                  /\ MinutesOf(e.time) + e.estimatedDuration >= 1440
        /\ Last(Cell(i, d)).time \in {Time1700, Time1900}

----------------------------------------------------------------------------
(* C2 - a day without matching jobs *)

\* C2: when no job of the list is assigned to the staff member with a due
\* date on the day, the day schedule is exactly a base entry followed by an
\* end entry, and the end entry's time is the shift end.
C2_SkipOnEmpty ==
    Built =>
    \A i \in StaffIndexes : \A d \in 1..7 :
        (~\E j \in 1..Len(jobs) : AssignedAndDue(jobs[j], staff[i], CellDay(d)))
        => /\ HasCell(i, d)
           /\ Len(Cell(i, d)) = 2
           /\ Cell(i, d)[1].type = "base"
           /\ Cell(i, d)[2].type = "end"
           /\ Cell(i, d)[2].time = ShiftEnd(IsLateShift(staff[i], CellDay(d)))

\* a two-entry day next to a day of the same staff member that has a job
C2_Witness ==
    /\ Built
    /\ \E i \in StaffIndexes : \E d1, d2 \in 1..7 :
          /\ ~\E j \in 1..Len(jobs) : AssignedAndDue(jobs[j], staff[i], CellDay(d1))
          /\ Len(Cell(i, d1)) = 2
          /\ Len(JobEntries(Cell(i, d2))) > 0

----------------------------------------------------------------------------
(* C3 - explicit workingLateShift *)

ExplicitLate(s) == Has(s, "schedule") /\ Has(s.schedule, "workingLateShift")

\* C3 as stated: when workingLateShift is set, the late flag of every cell
\* of the staff member equals it.
C3_ExplicitUsedDirectly ==
    \A i \in StaffIndexes : \A d \in 1..7 :
        (HasCell(i, d) /\ Cell(i, d) # <<>> /\ ExplicitLate(staff[i])) =>
            (ShowsLate(Cell(i, d)) <=> staff[i].schedule.workingLateShift)

\* C3, amended: workingLateShift = true gives a late shift on every date;
\* workingLateShift = false leaves the decision to the week of the date, as
\* when it is not set.
C3_TrueForcesLate ==
    \A i \in StaffIndexes : \A d \in 1..7 :
        (HasCell(i, d) /\ Cell(i, d) # <<>> /\ ExplicitLate(staff[i])) =>
            /\ staff[i].schedule.workingLateShift
                  => /\ ShowsLate(Cell(i, d))
                     /\ compareTime(Last(Cell(i, d)).time, Time1900) >= 0
            /\ ~staff[i].schedule.workingLateShift
                  => (ShowsLate(Cell(i, d)) <=> isLateShiftWeek(CellDay(d)))

\* a staff member with workingLateShift = false on a late shift next to one
\* with workingLateShift = true, late as well
C3_Witness ==
    /\ \E i \in StaffIndexes : \E d \in 1..7 :
          /\ HasCell(i, d) /\ Cell(i, d) # <<>> /\ ExplicitLate(staff[i])
          /\ ~staff[i].schedule.workingLateShift
          /\ ShowsLate(Cell(i, d))
    /\ \E i \in StaffIndexes : \E d \in 1..7 :
          /\ HasCell(i, d) /\ Cell(i, d) # <<>> /\ ExplicitLate(staff[i])
          /\ staff[i].schedule.workingLateShift
          /\ ShowsLate(Cell(i, d))

----------------------------------------------------------------------------
(* C4 - the alternating week *)

\* floor(minutes between the midnight of a day and 2024-01-01 / 10080)
WeekNumberOfDay(day) == ((day.day - DaysFromCivil(2024, 1, 1)) * 1440) \div 10080

IsOdd(n) == n % 2 = 1

\* C4: when workingLateShift is not set, the shift of a cell is late if and
\* only if the week number of its date is odd, for dates before 2024-01-01
\* (negative week numbers) as well.
C4_LateIffOddWeek ==
    \A i \in StaffIndexes : \A d \in 1..7 :
        (HasCell(i, d) /\ Cell(i, d) # <<>> /\ ~ExplicitLate(staff[i])) =>
            (ShowsLate(Cell(i, d)) <=> IsOdd(WeekNumberOfDay(CellDay(d))))

----------------------------------------------------------------------------
(* C5 - the end time *)

\* the job of the list a job entry stands for
JobIndexOf(jobId) ==
    CHOOSE j \in 1..Len(jobs) : Has(jobs[j], "id") /\ jobs[j].id = jobId

\* C5: the end entry's time is the later of the running time and the shift
\* end, where the running time is the due time of the last scheduled job
\* plus that job's duration, wrapped at midnight, and 05:00 when no job was
\* scheduled.
C5_EndIsMaxOfRunningAndShiftEnd ==
    \A i \in StaffIndexes : \A d \in 1..7 :
        (HasCell(i, d) /\ Cell(i, d) # <<>>) =>
            LET entries  == Cell(i, d)
                js       == JobEntries(entries)
                due      == jobs[JobIndexOf(Last(js).jobId)].dueDate
                running  == IF Len(js) = 0 THEN MinutesOf(Time0500)
                            ELSE (due.h * 60 + due.mi
                                    + Last(js).estimatedDuration) % 1440
                shiftEnd == IF IsLateShift(staff[i], CellDay(d))
                            THEN MinutesOf(Time1900) ELSE MinutesOf(Time1700)
            IN  /\ Last(entries).type = "end"
                /\ MinutesOf(Last(entries).time) = Max(running, shiftEnd)

\* one Leak Detection job at 08:00 on a normal shift, ending at 17:00
C5_Witness ==
    \E i \in StaffIndexes : \E d \in 1..7 :
        /\ HasCell(i, d) /\ Cell(i, d) # <<>>
        /\ LET js == JobEntries(Cell(i, d))
           IN  /\ Len(js) = 1
               /\ js[1].time = <<0, 8, ":", 0, 0>>
               /\ js[1].estimatedDuration = 120
        /\ Last(Cell(i, d)).time = Time1700
        /\ ~ShowsLate(Cell(i, d))

----------------------------------------------------------------------------
(* C6 - the shape of a day schedule *)

\* the time stamp of a due date, as the fields of the string
DueLess(a, b) ==
    LET da == <<a.y, a.mo, a.d, a.h * 3600 + a.mi * 60 + a.s>>
        db == <<b.y, b.mo, b.d, b.h * 3600 + b.mi * 60 + b.s>>
    IN  \E k \in 1..4 : da[k] < db[k] /\ \A m \in 1..(k - 1) : da[m] = db[m]

\* C6: a non-empty day schedule is one base entry, then for each scheduled
\* job, in ascending order of due time and with ties in the order of the job
\* list, an optional travel entry immediately followed by the job entry, then
\* one end entry.
C6_Shape ==
    \A i \in StaffIndexes : \A d \in 1..7 :
        (HasCell(i, d) /\ Cell(i, d) # <<>>) =>
            LET entries == Cell(i, d)
                n  == Len(entries)
                js == JobEntries(entries)
            IN  /\ n >= 2
                /\ entries[1].type = "base"
                /\ entries[n].type = "end"
                /\ \A k \in 2..(n - 1) : entries[k].type \in {"travel", "job"}
                /\ \A k \in 2..(n - 1) :
                      entries[k].type = "travel" => entries[k + 1].type = "job"
                /\ \A p \in 1..Len(js) : \A q \in (p + 1)..Len(js) :
                      LET a == JobIndexOf(js[p].jobId)
                          b == JobIndexOf(js[q].jobId)
                      IN  \/ DueLess(jobs[a].dueDate, jobs[b].dueDate)
                          \/ /\ ~DueLess(jobs[b].dueDate, jobs[a].dueDate)
                             /\ a < b

\* two jobs due at the same instant, scheduled in the order of the job list
C6_Witness ==
    \E i \in StaffIndexes : \E d \in 1..7 :
        /\ HasCell(i, d) /\ Cell(i, d) # <<>>
        /\ LET js == JobEntries(Cell(i, d))
           IN  /\ Len(js) = 2
               /\ jobs[JobIndexOf(js[1].jobId)].dueDate
                     = jobs[JobIndexOf(js[2].jobId)].dueDate
               /\ JobIndexOf(js[1].jobId) < JobIndexOf(js[2].jobId)
        /\ Len(Cell(i, d)) = 6

----------------------------------------------------------------------------
(* C7 - which jobs appear in a cell *)

\* C7: a job (with an id) has a job entry in the cell of staff member S on
\* day D if and only if it is assigned to S and due on D.
C7_JobIffAssignedAndDue ==
    Built =>
    \A i \in StaffIndexes : \A d \in 1..7 : \A j \in 1..Len(jobs) :
        Has(jobs[j], "id") =>
            ((/\ HasCell(i, d)
              /\ \E k \in 1..Len(Cell(i, d)) :
                    /\ Cell(i, d)[k].type = "job"
                    /\ Cell(i, d)[k].jobId = jobs[j].id)
             <=> AssignedAndDue(jobs[j], staff[i], CellDay(d)))

----------------------------------------------------------------------------
(* C8 - the keys of the schedule map *)

\* the "yyyy-MM-dd" strings of the 7 days from the Monday on or before the
\* reference date; 2024-01-01 is a Monday
WeekDates(ref) ==
    LET monday == CHOOSE m \in (ref.day - 6)..ref.day :
                      (m - DaysFromCivil(2024, 1, 1)) % 7 = 0
    IN  {CivilFromDays(monday + k) : k \in 0..6}

\* C8 as stated: after a week build the keys are exactly the cells of the
\* staff members with role "staff" and the 7 days of the Monday-start week
\* (a missing id reads "undefined" in the key).
C8_KeysOfEveryStaffRole ==
    Built =>
        DOMAIN schedules =
            {<<Get(staff[i], "id"), "-", date>> :
                i \in {i \in 1..Len(staff) : Get(staff[i], "role") = "staff"},
                date \in WeekDates(selectedWeek)}

\* C8, amended: after a week build the keys are exactly the cells of the
\* staff members with role "staff" that have an id and the 7 days of the
\* Monday-start week.
C8_KeysOfStaffWithId ==
    Built =>
        DOMAIN schedules =
            {<<staff[i].id, "-", date>> :
                i \in {i \in 1..Len(staff) :
                          Get(staff[i], "role") = "staff" /\ Has(staff[i], "id")},
                date \in WeekDates(selectedWeek)}

\* a build for a list with a staff member, a non-staff role and a record
\* without id: 7 keys
C8_Witness ==
    /\ Built
    /\ Len(staff) = 2
    /\ \E i \in 1..Len(staff) : Get(staff[i], "role") # "staff" \/ ~Has(staff[i], "id")
    /\ Cardinality(DOMAIN schedules) = 7

----------------------------------------------------------------------------
(* C9 - a failing cell *)

\* the build of the cell throws: the city names a member every object
\* inherits, and a job with an id is assigned and due
CellThrows(i, d) ==
    /\ Has(staff[i], "location") /\ Has(staff[i].location, "city")
    /\ staff[i].location.city \in ObjectPrototypeKeys
    /\ \E j \in 1..Len(jobs) :
          Has(jobs[j], "id") /\ AssignedAndDue(jobs[j], staff[i], CellDay(d))

\* the cell holds what a build of the day alone can return
CellAsBuiltAlone(i, d) ==
    LET n == 2 * Cardinality({j \in 1..Len(jobs) :
                 Has(jobs[j], "id") /\ AssignedAndDue(jobs[j], staff[i], CellDay(d))})
    IN  \E rnd \in [1..n -> RandomPairs] :
            LET r == generateDaySchedule(staff[i], CellDay(d), jobs, rnd, 0)
            IN  ~r.threw /\ r.entries = Cell(i, d)

----------------------------------------------------------------------------
(* C10 - exceptions of the week build *)

\* C10: no exception leaves the week build.
C10_NoExceptionSurfaces == failure # "effect"

----------------------------------------------------------------------------
(* C11 - the day builder does not throw *)

\* the random pairs the build of one day draws: two per matching job with id
DayDraws(i, d) ==
    IF ~Has(staff[i], "id") THEN 0
    ELSE 2 * Cardinality({j \in 1..Len(jobs) :
                 Has(jobs[j], "id") /\ AssignedAndDue(jobs[j], staff[i], CellDay(d))})

\* C11: the day schedule builder never throws: a staff member without id
\* yields the empty list, and for every other staff member the list starts
\* with the base entry, ends with the end entry and holds a job entry for
\* every matching job that has an id, whatever other jobs are skipped.
C11_BuilderNeverThrows ==
    Built =>
    \A i \in 1..Len(staff) : \A d \in 1..7 :
        \A rnd \in [1..DayDraws(i, d) -> RandomPairs] :
            LET r == generateDaySchedule(staff[i], CellDay(d), jobs, rnd, 0)
            IN  /\ ~r.threw
                /\ ~Has(staff[i], "id") => r.entries = <<>>
                /\ Has(staff[i], "id") =>
                      /\ Len(r.entries) >= 2
                      /\ r.entries[1].type = "base"
                      /\ Last(r.entries).type = "end"
                      /\ \A j \in 1..Len(jobs) :
                            (Has(jobs[j], "id")
                                /\ AssignedAndDue(jobs[j], staff[i], CellDay(d)))
                            => \E k \in 1..Len(r.entries) :
                                  /\ r.entries[k].type = "job"
                                  /\ r.entries[k].jobId = jobs[j].id

----------------------------------------------------------------------------
(* C12 - the map is rebuilt in full *)

\* the map is what generateSchedules() builds from the current props and
\* week, for some outcome of Math.random()
IsFullRebuild ==
    \E rnd \in [1..DrawsNeeded(staff, jobs, selectedWeek) -> RandomPairs] :
        LET r == generateSchedules(staff, jobs, selectedWeek, rnd)
        IN  ~r.threw /\ schedules = r.schedules

\* the effect of the latest change of jobs, staff or selectedWeek has run
EffectRan == mounted /\ ~effectPending /\ failure # "render"

\* C12: after any sequence of changes of the job list, the staff list or the
\* selected week, once the effect has run, the schedule map is a full rebuild
\* from the current inputs: nothing of an earlier list or week is left in it.
C12_MapIsFullRebuild == EffectRan => IsFullRebuild

----------------------------------------------------------------------------
(* C13 - lines and quoting of the exported CSV *)

\* a file has been exported (under SpecExport the map it was taken from is
\* still the state)
Exported == download # <<>>

\* the entries of the exported staff member from day d of the week on, each
\* with its day
RECURSIVE EntriesFrom(_)
EntriesFrom(d) ==
    IF d > 7 THEN <<>>
    ELSE LET daySchedule == DayScheduleOf(schedules, download[1].staffId, CellDay(d))
         IN  [k \in 1..Len(daySchedule) |->
                 [day |-> CellDay(d), entry |-> daySchedule[k]]]
             \o EntriesFrom(d + 1)

\* the positions of a character in a text
PositionsOf(ch, text) == {i \in 1..Len(text) : SubSeq(text, i, i) = ch}

\* the k-th smallest element of a set of numbers
Nth(S, k) == CHOOSE p \in S : Cardinality({q \in S : q <= p}) = k

\* text.split("\n")
Lines(text) ==
    LET nl == PositionsOf("\n", text)
        n  == Cardinality(nl)
    IN  [k \in 1..(n + 1) |->
            SubSeq(text,
                   IF k = 1 THEN 1 ELSE Nth(nl, k - 1) + 1,
                   IF k = n + 1 THEN Len(text) ELSE Nth(nl, k) - 1)]

\* the line reads bare,bare,bare,"...","...",bare: three fields without a
\* double quote, two fields that start and end with one, and a last field
\* without
IsQuotedRow(line) ==
    LET commas == PositionsOf(",", line)
        quotes == PositionsOf("\"", line)
    IN  /\ Cardinality(commas) >= 5
        /\ LET c3 == Nth(commas, 3)
               cl == Nth(commas, Cardinality(commas))
           IN  /\ c3 + 1 \in quotes
               /\ cl - 1 \in quotes
               /\ \A q \in quotes : c3 < q /\ q < cl
               /\ \E m \in commas :
                     /\ m - 1 \in quotes /\ m - 1 > c3 + 1
                     /\ m + 1 \in quotes /\ m + 1 < cl - 1

\* C13: for a staff member with N entries in the 7 days of the week the
\* exported CSV text has exactly N + 1 lines, the header and one line per
\* entry, and in every such line the location and the description are wrapped
\* in double quotes and the other fields are bare.
C13_LinesAndQuotes ==
    Exported =>
        LET lines == Lines(download[1].content)
        IN  /\ Len(lines) = Len(EntriesFrom(1)) + 1
            /\ lines[1] = CsvHeader
            /\ \A k \in 2..Len(lines) : IsQuotedRow(lines[k])

----------------------------------------------------------------------------
(* C14 - order and content of the exported rows *)

\* the rows of a CSV text: its pieces between the line breaks that are not
\* inside a quoted field
Records(text) ==
    LET quotes == PositionsOf("\"", text)
        nl == {p \in PositionsOf("\n", text) :
                  Cardinality({q \in quotes : q < p}) % 2 = 0}
        n  == Cardinality(nl)
    IN  [k \in 1..(n + 1) |->
            SubSeq(text,
                   IF k = 1 THEN 1 ELSE Nth(nl, k - 1) + 1,
                   IF k = n + 1 THEN Len(text) ELSE Nth(nl, k) - 1)]

StartsWith(text, prefix) ==
    Len(text) >= Len(prefix) /\ SubSeq(text, 1, Len(prefix)) = prefix

EndsWith(text, suffix) ==
    /\ Len(text) >= Len(suffix)
    /\ SubSeq(text, Len(text) - Len(suffix) + 1, Len(text)) = suffix

\* C14: after the header, the rows of the exported CSV are the entries of
\* the staff member day by day from Monday to Sunday, each day in the order
\* of its entry list; every row starts with the date of its day, the time
\* and the type of its entry and ends with the entry's estimatedDuration, or
\* with 0 when the entry has none.
C14_RowsInEntryOrder ==
    Exported =>
        LET rows    == Records(download[1].content)
            entries == EntriesFrom(1)
        IN  /\ Len(rows) = Len(entries) + 1
            /\ \A k \in 1..Len(entries) :
                  LET e == entries[k].entry
                  IN  /\ StartsWith(rows[k + 1],
                             DateText(entries[k].day) \o "," \o TimeText(e.time)
                                 \o "," \o e.type \o ",")
                      /\ EndsWith(rows[k + 1],
                             "," \o (IF Has(e, "estimatedDuration")
                                     THEN ToString(e.estimatedDuration)
                                     ELSE "0"))

\* an export of a week with two jobs on its Monday, one of them at an
\* address with a line break: 19 rows on more than 19 lines
C14_Witness ==
    /\ Exported
    /\ Len(JobEntries(DayScheduleOf(schedules, download[1].staffId,
                                    CellDay(1)))) = 2
    /\ Len(Records(download[1].content)) = 19
    /\ Len(Lines(download[1].content)) > 19

----------------------------------------------------------------------------
(* C15 - subtractMinutes clamps, addMinutes wraps *)

\* the finished call of helper fn, if the state holds one
Returned(fn) == call # <<>> /\ call[1].done /\ call[1].fn = fn

\* the zero-padded "HH:mm" string of a minute of the day
ClockText(n) ==
    <<(n \div 60) \div 10, (n \div 60) % 10, ":", (n % 60) \div 10, (n % 60) % 10>>

IsClockText(t) ==
    /\ Len(t) = 5 /\ t[3] = ":"
    /\ \A k \in {1, 2, 4, 5} : t[k] \in 0..9
    /\ t[1] * 10 + t[2] \in 0..23
    /\ t[4] * 10 + t[5] \in 0..59

\* C15: for a valid HH:mm time and a minute count m >= 0, subtractMinutes is
\* the HH:mm form of max(0, hour*60 + minute - m), clamped at 00:00, and
\* addMinutes is the HH:mm form of (hour*60 + minute + m) mod 1440; both are
\* two zero-padded two-digit numbers around a colon.
C15_SubtractClampsAddWraps ==
    /\ Returned("subtractMinutes") =>
          LET c == call[1]
          IN  /\ c.result = ClockText(Max(0, MinutesOf(c.args[1]) - c.args[2]))
              /\ IsClockText(c.result)
    /\ Returned("addMinutes") =>
          LET c == call[1]
          IN  /\ c.result = ClockText((MinutesOf(c.args[1]) + c.args[2]) % 1440)
              /\ IsClockText(c.result)

\* subtractMinutes("00:10", 30) = "00:00"
C15_Witness ==
    /\ Returned("subtractMinutes")
    /\ call[1].args = <<(<<0, 0, ":", 1, 0>>), 30>>
    /\ call[1].result = <<0, 0, ":", 0, 0>>

----------------------------------------------------------------------------
(* C16 - the duration table *)

\* the minutes the specification gives per category
TableMinutes ==
    [c \in {"Geyser Replacement"} |-> 180] @@ [c \in {"Geyser Assessment"} |-> 60]
    @@ [c \in {"Leak Detection"} |-> 120] @@ [c \in {"Drain Blockage"} |-> 90]
    @@ [c \in {"Camera Inspection"} |-> 75] @@ [c \in {"Toilet/Shower"} |-> 90]

\* a job of the given category, without the field if the category is missing
JobOfCategory(category) ==
    IF category = Undefined THEN [id |-> "job"]
    ELSE [id |-> "job", category |-> category]

\* C16: getJobDuration answers every category, a missing or unknown one too:
\* the minutes of the table for its six categories and 60 for anything else;
\* the estimatedDuration of the job entry of a job of that category is the
\* same number.
C16_DurationMatchesTable ==
    Returned("getJobDuration") =>
        LET category == call[1].args[1]
            expected == IF category \in DOMAIN TableMinutes
                        THEN TableMinutes[category] ELSE 60
        IN  /\ call[1].result = expected
            /\ JobEntry(JobOfCategory(category), HHMM(8, 0), "address",
                        "title").estimatedDuration = expected

\* getJobDuration("Camera Inspection") has returned 75
C16_Witness ==
    /\ Returned("getJobDuration")
    /\ call[1].args = <<"Camera Inspection">>
    /\ call[1].result = 75

----------------------------------------------------------------------------
(* C17 - the travel estimate lies between 15 and 60 minutes *)

\* round(distance * 3000) at least k, for coordinate differences in units
\* of 1e-4 degree: 0.3 * sqrt(dlat^2 + dlng^2) >= k - 0.5
RoundsToAtLeast(k, dlat, dlng) ==
    \/ dlat > 1000 \/ dlat < -1000 \/ dlng > 1000 \/ dlng < -1000
    \/ 9 * (dlat * dlat + dlng * dlng) >= (10 * k - 5) * (10 * k - 5)

\* C17: estimateTravelTime returns an integer between 15 and 60, the
\* rounded distance * 3000 limited to that range; the estimatedDuration of
\* the travel entry built with it lies between 15 and 60 as well.
C17_TravelTimeClamped ==
    Returned("estimateTravelTime") =>
        LET from   == call[1].args[1]
            to     == call[1].args[2]
            dlat   == to.lat - from.lat
            dlng   == to.lng - from.lng
            result == call[1].result
        IN  /\ result \in 15..60
            /\ \A k \in 16..60 : (result >= k) <=> RoundsToAtLeast(k, dlat, dlng)
            /\ TravelEntry(HHMM(8, 0), result, "address").estimatedDuration
                   \in 15..60

\* an estimate strictly between the two limits has been returned
C17_Witness ==
    /\ Returned("estimateTravelTime")
    /\ call[1].result \in 16..59

----------------------------------------------------------------------------
(* C18 - shift end and its label follow the late flag *)

\* C18: in every built cell the shift end is 19:00 if and only if the late
\* flag resolved for the staff member and the day is true, and 17:00
\* otherwise; the end entry says "(Late Shift)" exactly when the shift end
\* is 19:00 and "(Normal Shift)" otherwise; its time is never earlier than
\* that shift end and, on a day without job entries, equal to it.
C18_ShiftEndFollowsLateFlag ==
    Built =>
    \A i \in StaffIndexes : \A d \in 1..7 :
        (HasCell(i, d) /\ Cell(i, d) # <<>>) =>
            LET isLateShift == IsLateShift(staff[i], CellDay(d))
                shiftEnd    == IF isLateShift THEN Time1900 ELSE Time1700
                end         == Last(Cell(i, d))
            IN  /\ end.type = "end"
                /\ JobEntries(Cell(i, d)) = <<>> => end.time = shiftEnd
                /\ compareTime(end.time, shiftEnd) >= 0
                /\ ShowsLate(Cell(i, d)) <=> shiftEnd = Time1900
                /\ ~ShowsLate(Cell(i, d))
                       => end.description = <<"Shift ends ", "(Normal Shift)">>

\* a built week with a late day and a normal day that hold no job, ending
\* at 19:00 and at 17:00
C18_Witness ==
    /\ Built
    /\ \E i \in StaffIndexes : \E d \in 1..7 :
          /\ HasCell(i, d) /\ Cell(i, d) # <<>>
          /\ JobEntries(Cell(i, d)) = <<>>
          /\ ShowsLate(Cell(i, d)) /\ Last(Cell(i, d)).time = Time1900
    /\ \E i \in StaffIndexes : \E d \in 1..7 :
          /\ HasCell(i, d) /\ Cell(i, d) # <<>>
          /\ JobEntries(Cell(i, d)) = <<>>
          /\ ~ShowsLate(Cell(i, d)) /\ Last(Cell(i, d)).time = Time1700

----------------------------------------------------------------------------
(* C19 - the base entry *)

\* the city whose base the staff member starts from, as specified:
\* Johannesburg or Cape Town when it is the city of the staff member,
\* Johannesburg for any other or missing city
SpecifiedBaseCity(s) ==
    IF /\ Has(s, "location") /\ Has(s.location, "city")
       /\ s.location.city \in {"Johannesburg", "Cape Town"}
    THEN s.location.city
    ELSE "Johannesburg"

\* C19: every built day schedule starts with a base entry at 05:00 that
\* carries the address and the coordinates of the staff member's city when
\* that city is Johannesburg or Cape Town and those of Johannesburg for any
\* other or missing city, whatever shift times the staff member has.
C19_BaseEntryAtResolvedCity ==
    Built =>
    \A i \in StaffIndexes : \A d \in 1..7 :
        (HasCell(i, d) /\ Cell(i, d) # <<>>) =>
            LET base == Cell(i, d)[1]
                city == BASE_LOCATIONS[SpecifiedBaseCity(staff[i])]
            IN  /\ base.type = "base"
                /\ base.time = Time0500
                /\ Has(base, "location") /\ base.location = <<city.address>>
                /\ Has(base, "coordinates")
                /\ base.coordinates = city.coordinates

----------------------------------------------------------------------------
(* C20 - time and description of a job entry *)

\* the job entries of staff[i] in the built week that carry the id of job
JobEntriesOf(i, job) ==
    {e \in UNION {{Cell(i, d)[k] : k \in 1..Len(Cell(i, d))} :
                    d \in {dd \in 1..7 : HasCell(i, dd)}} :
        e.type = "job" /\ e.jobId = job.id}

\* the hour and minute written in an ISO date-time string, as HH:mm
IsoHHMM(str) ==
    <<str.h \div 10, str.h % 10, ":", str.mi \div 10, str.mi % 10>>

\* every job entry stands at the due time of a job of the list with its id,
\* under the title of that job or "Unnamed Job"
JobEntriesAtDueTime ==
    \A i \in StaffIndexes : \A d \in 1..7 :
        HasCell(i, d) =>
            \A k \in 1..Len(Cell(i, d)) :
                LET e == Cell(i, d)[k]
                IN  e.type = "job" =>
                        \E j \in 1..Len(jobs) :
                            /\ Has(jobs[j], "id") /\ jobs[j].id = e.jobId
                            /\ Has(jobs[j], "dueDate")
                            /\ e.time = IsoHHMM(jobs[j].dueDate)
                            /\ e.description =
                                   <<IF Has(jobs[j], "title") THEN jobs[j].title
                                     ELSE "Unnamed Job">>

\* every job with an id that is assigned to a scheduled staff member and has
\* no dueDate has a job entry at 08:00 in the week of that staff member
UndatedJobsAt0800 ==
    \A i \in StaffIndexes : \A j \in 1..Len(jobs) :
        (/\ Has(jobs[j], "id")
         /\ Has(jobs[j], "assignedTo") /\ jobs[j].assignedTo = staff[i].id
         /\ ~Has(jobs[j], "dueDate")) =>
            \E e \in JobEntriesOf(i, jobs[j]) : e.time = <<0, 8, ":", 0, 0>>

\* C20: in a built week every job entry's time is the due time of its job
\* as HH:mm and its description is the job's title, or "Unnamed Job" when
\* the job has none; a job assigned to the staff member whose dueDate is
\* missing has a job entry at 08:00.
C20_JobEntryTimeAndTitle ==
    Built => (JobEntriesAtDueTime /\ UndatedJobsAt0800)

----------------------------------------------------------------------------
(* C21 - staff records without id or without name *)

\* the records of role staff that have an id
StaffWithId ==
    {i \in 1..Len(staff) : Get(staff[i], "role") = "staff" /\ Has(staff[i], "id")}

\* the keys of the 7 days of the staff records in the set of indexes
KeysOf(indexes) == {CellKey(i, d) : i \in indexes, d \in 1..7}

\* C21 as stated: a staff record without id or without name gets no
\* schedule entries, and every other record of role staff gets its 7 days.
C21_NoIdOrNoNameSkipped ==
    Built =>
        LET wellFormed == {i \in StaffWithId : Has(staff[i], "name")}
        IN  DOMAIN schedules = KeysOf(wellFormed)

\* C21: a staff record without id gets no schedule entries; a record of role
\* staff with an id gets a day schedule for each of the 7 days whether it has
\* a name or not, each starting with the base entry unless its build threw;
\* the map holds nothing else.
C21_OnlyNoIdSkipped ==
    Built =>
        /\ DOMAIN schedules = KeysOf(StaffWithId)
        /\ \A i \in StaffWithId : \A d \in 1..7 :
              \/ Cell(i, d) = <<>> /\ CellThrows(i, d)
              \/ Cell(i, d) # <<>> /\ Cell(i, d)[1].type = "base"

\* a built week for a list of a record without id and a record of role
\* staff without name, the latter with its base and end entry on Monday
C21_Witness ==
    /\ Built
    /\ \E i \in 1..Len(staff) : ~Has(staff[i], "id")
    /\ \E i \in StaffWithId :
          /\ ~Has(staff[i], "name")
          /\ HasCell(i, 1) /\ Len(Cell(i, 1)) = 2

----------------------------------------------------------------------------
(* C22 - the build leaves its inputs alone *)

\* C22: a week build leaves the job list and the staff list as they were:
\* the same elements in the same order with the same fields, also when the
\* matching jobs of a day are sorted.
C22_BuildLeavesInputs ==
    [][(effectPending /\ ~effectPending') => (jobs' = jobs /\ staff' = staff)]_vars

\* a built day whose two job entries stand in the opposite order of their
\* jobs in the job list, which is still in its order
C22_Witness ==
    /\ Built
    /\ Len(jobs) = 2
    /\ \E i \in StaffIndexes : \E d \in 1..7 :
          /\ HasCell(i, d)
          /\ Len(JobEntries(Cell(i, d))) = 2
          /\ JobEntries(Cell(i, d))[1].jobId = jobs[2].id
          /\ JobEntries(Cell(i, d))[2].jobId = jobs[1].id

----------------------------------------------------------------------------
(* C23 - what the random jitter changes between two builds *)

\* the lists a build of the day can return, one per outcome of the random
\* numbers it draws (two pairs per matching job with an id)
DayBuilds(staffMember, date, allJobs) ==
    LET n == 2 * Cardinality({j \in 1..Len(allJobs) :
                     /\ Has(allJobs[j], "id")
                     /\ IsDayJob(allJobs[j], staffMember, date)})
        results == {generateDaySchedule(staffMember, date, allJobs, rnd, 0) :
                        rnd \in [1..n -> RandomPairs]}
    IN  {r.entries : r \in {x \in results : ~x.threw}}

TravelEntries(entries) == SelectSeq(entries, LAMBDA e : e.type = "travel")

\* two lists differ in a travel entry, in its time and its estimatedDuration
TravelDiffers(a, b) ==
    \E k \in 1..Min(Len(TravelEntries(a)), Len(TravelEntries(b))) :
        /\ TravelEntries(a)[k].time # TravelEntries(b)[k].time
        /\ TravelEntries(a)[k].estimatedDuration
               # TravelEntries(b)[k].estimatedDuration

\* the staff members of the builds, and the days of the selected week and
\* of every week the clock can select
BuildStaff == {StaffPool[k] : k \in {x \in 1..Len(StaffPool) : Has(StaffPool[x], "id")}}
BuildDays ==
    UNION {{WeekDays(w)[d] : d \in 1..7} : w \in BuildClock \cup {selectedWeek}}

\* C23 as stated: there are a staff member, a day and a job list for which
\* two builds differ in a travel entry and in the time of the end entry.
C23_TravelAndEndDiffer ==
    \E staffMember \in BuildStaff : \E date \in BuildDays :
        \E allJobs \in JobLists :
            \E a, b \in DayBuilds(staffMember, date, allJobs) :
                /\ a # <<>> /\ b # <<>>
                /\ TravelDiffers(a, b)
                /\ Last(a).time # Last(b).time

\* C23: the random jitter reaches the travel entries only.  Every build of
\* a day of the built week from the same staff member, day and job list has
\* the same number of entries and the same base, job and end entries as the
\* one in the map, the time of the end entry included; two builds can differ
\* in the time, description and estimatedDuration of their travel entries.
C23_OnlyTravelVaries ==
    Built =>
    \A i \in StaffIndexes : \A d \in 1..7 :
        (HasCell(i, d) /\ Cell(i, d) # <<>>) =>
            \A other \in DayBuilds(staff[i], CellDay(d), jobs) :
                /\ Len(other) = Len(Cell(i, d))
                /\ Last(other).time = Last(Cell(i, d)).time
                /\ \A k \in 1..Len(other) :
                      \/ other[k] = Cell(i, d)[k]
                      \/ /\ other[k].type = "travel"
                         /\ Cell(i, d)[k].type = "travel"
                         /\ other[k].location = Cell(i, d)[k].location

\* a built day for which another build of the same inputs has a travel
\* entry at another time and of another duration
C23_Witness ==
    /\ Built
    /\ \E i \in StaffIndexes : \E d \in 1..7 :
          /\ HasCell(i, d) /\ Cell(i, d) # <<>>
          /\ \E other \in DayBuilds(staff[i], CellDay(d), jobs) :
                TravelDiffers(other, Cell(i, d))

----------------------------------------------------------------------------
(* C24 - position of a travel entry *)

\* C24: in every built day schedule a travel entry is followed by a job
\* entry and stands at that entry's time minus its own estimatedDuration,
\* clamped at 00:00: never later than the job, and at 00:00 when the travel
\* time exceeds the minutes since midnight of the job.
C24_TravelBeforeItsJob ==
    Built =>
    \A i \in StaffIndexes : \A d \in 1..7 :
        HasCell(i, d) =>
            \A k \in 1..Len(Cell(i, d)) :
                Cell(i, d)[k].type = "travel" =>
                    LET travel  == Cell(i, d)[k]
                        job     == Cell(i, d)[k + 1]
                        minutes == MinutesOf(job.time) - travel.estimatedDuration
                    IN  /\ k < Len(Cell(i, d)) /\ job.type = "job"
                        /\ travel.time = ClockText(Max(0, minutes))
                        /\ compareTime(travel.time, job.time) <= 0
                        /\ minutes < 0 => travel.time = <<0, 0, ":", 0, 0>>

\* a built day with a travel entry at 00:00 for a job ten minutes past
\* midnight, and a travel entry after 00:00 for another job
C24_Witness ==
    /\ Built
    /\ \E i \in StaffIndexes : \E d \in 1..7 :
          /\ HasCell(i, d)
          /\ \E k \in 1..(Len(Cell(i, d)) - 1) :
                /\ Cell(i, d)[k].type = "travel"
                /\ Cell(i, d)[k].time = <<0, 0, ":", 0, 0>>
                /\ Cell(i, d)[k + 1].time = <<0, 0, ":", 1, 0>>
          /\ \E k \in 1..(Len(Cell(i, d)) - 1) :
                /\ Cell(i, d)[k].type = "travel"
                /\ MinutesOf(Cell(i, d)[k].time) > 0

----------------------------------------------------------------------------
(* C25 - the day list is in construction order, not in time order *)

\* a later entry of the list has an earlier time than an entry before it
OutOfTimeOrder(entries) ==
    \E p \in 1..Len(entries) : \E q \in (p + 1)..Len(entries) :
        compareTime(entries[q].time, entries[p].time) < 0

\* C25: a built day list is left in the order of its construction, also
\* when that order is not the order of the times: the base entry is first,
\* the end entry last, every travel entry stands immediately before its job
\* entry, and the job entries follow the order of the due dates.
C25_ConstructionOrderKept ==
    Built =>
    \A i \in StaffIndexes : \A d \in 1..7 :
        (HasCell(i, d) /\ Cell(i, d) # <<>>) =>
            LET entries == Cell(i, d)
                n  == Len(entries)
                js == JobEntries(entries)
            IN  /\ entries[1].type = "base"
                /\ entries[n].type = "end"
                /\ \A k \in 2..(n - 1) :
                      entries[k].type = "travel" =>
                          /\ entries[k + 1].type = "job"
                          /\ entries[k].location
                                 = <<"En route to ">> \o entries[k + 1].location
                /\ \A p \in 1..Len(js) : \A q \in (p + 1)..Len(js) :
                      ~DueLess(jobs[JobIndexOf(js[q].jobId)].dueDate,
                               jobs[JobIndexOf(js[p].jobId)].dueDate)

\* a built day of two jobs whose second travel entry is earlier than the
\* job entry before it
C25_Witness ==
    /\ Built
    /\ \E i \in StaffIndexes : \E d \in 1..7 :
          /\ HasCell(i, d) /\ Len(Cell(i, d)) = 6
          /\ Cell(i, d)[3].type = "job" /\ Cell(i, d)[4].type = "travel"
          /\ compareTime(Cell(i, d)[4].time, Cell(i, d)[3].time) < 0
          /\ OutOfTimeOrder(Cell(i, d))

----------------------------------------------------------------------------
(* C26 - a travel entry before every job entry *)

\* the number of jobs with an id that are assigned to staff[i] and due on
\* the d-th day of the week
ScheduledJobs(i, d) ==
    Cardinality({j \in 1..Len(jobs) :
        Has(jobs[j], "id") /\ AssignedAndDue(jobs[j], staff[i], CellDay(d))})

\* every job entry has a travel entry immediately before it
TravelBeforeEveryJob(entries) ==
    \A k \in 1..Len(entries) :
        entries[k].type = "job" => (k > 1 /\ entries[k - 1].type = "travel")

\* C26: in every day schedule of a built week each job entry is immediately
\* preceded by a travel entry, and a day with k scheduled jobs has exactly
\* 2k + 2 entries.
C26_TravelNeverOmitted ==
    Built =>
    \A i \in StaffIndexes : \A d \in 1..7 :
        HasCell(i, d) =>
            /\ TravelBeforeEveryJob(Cell(i, d))
            /\ Len(Cell(i, d)) = 2 * ScheduledJobs(i, d) + 2

----------------------------------------------------------------------------
(* C27 - the end entry against the jobs of its day *)

\* C27: in every built day schedule the time of the end entry is not
\* earlier than the time of any job entry of the day, nor than any job
\* entry's time plus its estimatedDuration.
C27_EndNotBeforeJobs ==
    Built =>
    \A i \in StaffIndexes : \A d \in 1..7 :
        (HasCell(i, d) /\ Cell(i, d) # <<>>) =>
            LET end == Last(Cell(i, d))
                js  == JobEntries(Cell(i, d))
            IN  \A k \in 1..Len(js) :
                    /\ compareTime(end.time, js[k].time) >= 0
                    /\ MinutesOf(end.time)
                           >= MinutesOf(js[k].time) + js[k].estimatedDuration

----------------------------------------------------------------------------
(* C28 - the lock after five failed logins *)

\* C28: for every account other than rona, stored loginAttempts >= 5
\* implies that lockUntil is set, in every state the login route can reach,
\* also when failed logins of one account interleave between reading the
\* user and updating it.
C28_FiveAttemptsLocked ==
    \A username \in Usernames \ {"rona"} :
        users[username].loginAttempts >= 5
            => users[username].lockUntil # NoDate

(* C29 - a reset token is used once *)

\* request r gets its answer in this step, and it is the answer of a reset
ResetAnswered(r) ==
    /\ reqs'[r] # reqs[r]
    /\ reqs'[r].pc = "done"
    /\ reqs'[r].kind = "reset"

\* the answers of handlePasswordReset to a body that does not pass its
\* validation
ValidationErrors ==
    {"Token and password are required",
     "Password must be between 6 and 128 characters long"}

\* C29: once a reset with a token has succeeded and no reset was requested
\* since, every reset with that token that is answered is answered with 400
\* and leaves the stored accounts as they are; the error is "Token is
\* invalid or has expired" unless the body did not pass the validation.
C29_TokenUsedOnce ==
    [][\A r \in 1..MaxRequests :
          (ResetAnswered(r) /\ reqs'[r].token \in spent)
              => /\ reqs'[r].status = 400
                 /\ reqs'[r].error \in
                        {"Token is invalid or has expired"} \cup ValidationErrors
                 /\ users' = users]_vars

(* C30 - the active layout is a stored layout *)

\* the active layout is set and a stored layout has its id
ActiveLayoutStored ==
    /\ activeLayout # <<>>
    /\ \E i \in 1..Len(layouts) : layouts[i].id = activeLayout[1].id

\* a request to delete the active layout is answered with 400 and changes
\* neither the layouts nor the active layout
DeleteOfActiveRejected ==
    (/\ reply'.op = "delete"
     /\ reply'.id = activeLayout[1].id
     /\ (reply' # reply \/ layouts' # layouts))
        => /\ reply'.status = 400
           /\ reply'.error = "Cannot delete the active layout"
           /\ layouts' = layouts
           /\ activeLayout' = activeLayout

\* C30: from the default installation, after any sequence of save, activate,
\* delete, clone and import the active layout is set and its id is the id of
\* a stored layout; a request to delete the active layout is answered with
\* 400 and changes nothing.
C30_ActiveLayoutKept == []ActiveLayoutStored /\ [][DeleteOfActiveRejected]_vars

\* a layout other than the default one is active among several, and the
\* request to delete it was refused
C30_Witness ==
    /\ reply.op = "delete"
    /\ reply.status = 400
    /\ reply.id = activeLayout[1].id
    /\ reply.id # "default-layout"
    /\ Len(layouts) >= 2
    /\ \A i \in 1..Len(layouts) : layouts[i].id # "default-layout"

====
